---- MODULE Spec2Model ----
(***************************************************************************)
(* BacktestService.runBacktest (src/src/backtest/backtest.controller.ts)   *)
(* as a state machine: one run walks the candle series bar by bar, keeps   *)
(* at most one position, appends trades and equity samples and produces a  *)
(* BacktestResult.                                                         *)
(*                                                                         *)
(* Numbers are exact rationals <<numerator, denominator>> (the code uses   *)
(* IEEE doubles); a zero denominator stands for the non-finite results of  *)
(* a division by zero (<<0,0>> is NaN, <<1,0>> / <<-1,0>> are +-Infinity). *)
(* Timestamps are counted in hours.  An indicator lookup that falls        *)
(* outside its array is `undefined`, modelled as the empty sequence; a     *)
(* defined value v is <<v>>.                                               *)
(***************************************************************************)
EXTENDS Integers, Sequences, FiniteSets, TLC

(***************************************************************************)
(* Bounds and input domains                                                *)
(***************************************************************************)
\* largest number of candles in a fetched series
MaxCandles == 66

\* prices a candle's low, close and high are drawn from
PriceSet == {80, 100, 120}

\* (positionSizePercent, stopLossPercent, takeProfitPercent) of a run
\* the last one has a non-positive stop-loss percent
ParamSet == {<<100, 20, 20>>, <<500, 20, 20>>, <<100, -20, 20>>}

\* hour of the first candle; candles are one hour apart
StartHour == 696

\* the last bar with a free candle; the series is flat from the next bar on
\* (low = close = high = the close before)
LastLiveBar == 27

\* largest number of windows of a robustness validation
MaxMonths == 3

\* latest candle timestamp the exchange holds
MaxTime == 5

\* largest number of candles in one page of the exchange
PageLimit == 2

\* largest number of open positions the exchange lists
MaxPositions == 3

\* largest volatility factor calculatePositionSize is given
MaxVolatility == 3

\* largest number of runs of executeTradingLogic in progress at once
MaxTicks == 2

\* largest number of orders the exchange places
MaxOrders == 2

\* Math.sqrt of a number that is not a rational square is rounded down to
\* one part in SqrtScale of the denominator
SqrtScale == 100

(***************************************************************************)
(* Program constants                                                       *)
(***************************************************************************)
initialBalanceDefault == 10000
rsiPeriod == 14
rsiOverbought == 70
rsiOversold == 30
emaShortPeriod == 9
emaLongPeriod == 21

Max(a, b) == IF a > b THEN a ELSE b
Min(a, b) == IF a < b THEN a ELSE b

\* a loop that starts one bar earlier
StartIndexEarly == Max(emaLongPeriod, rsiPeriod)

\* first bar index of the simulation loop
StartIndex == Max(emaLongPeriod, rsiPeriod) + 1

\* candle counts of the series a run is given
CandleCounts == {0, 1, StartIndex, StartIndex + 1, MaxCandles}

(***************************************************************************)
(* Exact arithmetic standing for the code's number type                    *)
(***************************************************************************)
Abs(x) == IF x < 0 THEN 0 - x ELSE x
Sign(x) == IF x > 0 THEN 1 ELSE IF x < 0 THEN 0 - 1 ELSE 0

RECURSIVE GCD(_, _)
GCD(a, b) == IF b = 0 THEN a ELSE GCD(b, a % b)

RNorm(num, den) ==
  IF den = 0 THEN <<Sign(num), 0>>
  ELSE LET g == GCD(Abs(num), Abs(den))
           s == Sign(den)
       IN  <<(s * num) \div g, (s * den) \div g>>

R(x) == <<x, 1>>
NaN == <<0, 0>>
IsFinite(a) == a[2] # 0

\* the products are taken after cancelling common factors
RMul(a, b) ==
  IF IsFinite(a) /\ IsFinite(b)
  THEN LET g1 == GCD(Abs(a[1]), b[2])
           g2 == GCD(Abs(b[1]), a[2])
       IN  RNorm((a[1] \div g1) * (b[1] \div g2), (a[2] \div g2) * (b[2] \div g1))
  ELSE RNorm(a[1] * b[1], 0)
RAdd(a, b) ==
  IF IsFinite(a) /\ IsFinite(b)
  THEN LET g == GCD(a[2], b[2])
       IN  RNorm(a[1] * (b[2] \div g) + b[1] * (a[2] \div g), (a[2] \div g) * b[2])
  ELSE IF IsFinite(b) THEN a
  ELSE IF IsFinite(a) THEN b
  ELSE IF a = b THEN a ELSE NaN
RNeg(a) == <<0 - a[1], a[2]>>
RSub(a, b) == RAdd(a, RNeg(b))
\* x / 0 is +-Infinity, 0 / 0 is NaN
RDiv(a, b) ==
  IF IsFinite(a) /\ IsFinite(b)
  THEN IF b[1] = 0 THEN RNorm(a[1], 0)
       ELSE RMul(a, <<Sign(b[1]) * b[2], Abs(b[1])>>)
  ELSE IF IsFinite(a) /\ b # NaN THEN R(0)
  ELSE IF IsFinite(b) /\ a # NaN THEN <<a[1] * (IF b[1] < 0 THEN 0 - 1 ELSE 1), 0>>
  ELSE NaN
\* comparisons with NaN are false
RLt(a, b) ==
  IF IsFinite(a) /\ IsFinite(b)
  THEN LET g == GCD(a[2], b[2])
       IN  a[1] * (b[2] \div g) < b[1] * (a[2] \div g)
  ELSE a # NaN /\ b # NaN /\ a # b /\ (a = <<0 - 1, 0>> \/ b = <<1, 0>>)
RGt(a, b) == RLt(b, a)
RLe(a, b) == a # NaN /\ b # NaN /\ (a = b \/ RLt(a, b))
RGe(a, b) == RLe(b, a)
RMax(a, b) == IF RGt(b, a) THEN b ELSE a
RMin(a, b) == IF RLt(b, a) THEN b ELSE a
RAbs(a) == IF a[1] < 0 THEN RNeg(a) ELSE a

(***************************************************************************)
(* State                                                                   *)
(***************************************************************************)
VARIABLES
  pc,                  \* "start", "loop", "entry", "done", "error"
  n,                   \* historicalData.length
  phase,               \* where the indicator patterns start in the series
  rsiPattern,          \* the RSI values the series cycles through
  positionSizePercent, stopLossPercent, takeProfitPercent,
  i,                   \* loop index
  candleClose,         \* close of the candle last read
  balance, equity,
  position,            \* <<>> (null) or <<record>>
  trades, equityCurve,
  monthlyReturns, lastMonthBalance,
  maxBalance, maxDrawdown,
  exitReason,          \* reason of the exit on the current bar, "" if none
  stopTouched, tpTouched, \* the current bar touched the open position's levels
  entries,             \* number of positions opened so far
  result,              \* <<>> or <<BacktestResult>>
  dailyReturns,        \* the daily returns behind the Sharpe ratio
  op,                  \* the service method that is running
  market,              \* what runBacktest returns for each grid point
  run,                 \* number of the next run of a sweep, from 1
  bestResult,          \* <<>> (null) or <<record>>
  bestScore,
  lookbackMonths,
  results,             \* monthly results of validateStrategyRobustness
  summary,             \* <<>> or <<summary of validateStrategyRobustness>>
  startTime, endTime,  \* the period asked of fetchHistoricalData
  currentStartTime,    \* start of the next page
  allKlines,           \* timestamps of the candles fetched so far
  emergencyStopActive, \* field of RiskManagementService
  peakValue, dailyStartBalance, weeklyStartBalance, monthlyStartBalance,
                       \* fields of DrawdownControllerService
  call,                \* <<>> or <<the operation that just ran and what it was given>>
  riskDecision,        \* <<>> or <<the RiskDecision it returned>>
  sizing,              \* <<>> or <<last calculatePositionSize call and result>>
  indicators,          \* <<>> or <<what the indicators gave analyze>>
  signal,              \* <<>> or <<the TradeSignal analyze returned>>
  isTrading,           \* field of TradingService
  closeAll,            \* where emergencyCloseAll is: "idle", "positions", "close"
  activePositions,     \* number of positions emergencyCloseAll found open
  toClose,             \* positions emergencyCloseAll has still to close
  emergencyStarted,    \* emergencyCloseAll has begun and startTrading was not called since
  tick,                \* where each run of executeTradingLogic is
  orders               \* number of orders placed by openManagedPosition

vars == <<pc, n, phase, rsiPattern, positionSizePercent, stopLossPercent,
          takeProfitPercent, i, candleClose, balance, equity, position, trades,
          equityCurve, monthlyReturns, lastMonthBalance, maxBalance,
          maxDrawdown, exitReason, stopTouched, tpTouched, entries, result,
          dailyReturns, op, market, run, bestResult, bestScore,
          lookbackMonths, results, summary, startTime, endTime,
          currentStartTime, allKlines, emergencyStopActive, peakValue,
          dailyStartBalance, weeklyStartBalance, monthlyStartBalance, call,
          riskDecision, sizing, indicators, signal, isTrading, closeAll,
          activePositions, toClose, emergencyStarted, tick, orders>>

\* the state of runBacktest
backtestVars == <<n, phase, rsiPattern, positionSizePercent, stopLossPercent,
                  takeProfitPercent, i, candleClose, balance, equity, position,
                  trades, equityCurve, monthlyReturns, lastMonthBalance,
                  maxBalance, maxDrawdown, exitReason, stopTouched, tpTouched,
                  entries, result, dailyReturns>>

\* the state of optimizeStrategy and validateStrategyRobustness
sweepVars == <<op, market, run, bestResult, bestScore, lookbackMonths, results,
               summary>>

\* the state of fetchHistoricalData
fetchVars == <<startTime, endTime, currentStartTime, allKlines>>

\* the state of RiskManagementService and of its DrawdownControllerService
riskVars == <<emergencyStopActive, peakValue, dailyStartBalance,
              weeklyStartBalance, monthlyStartBalance, call, riskDecision>>

\* the record of the calls to PositionSizingService
sizingVars == <<sizing>>

\* the record of the calls to TrendRsiStrategy.analyze
strategyVars == <<indicators, signal>>

\* the state of TradingService and of its runs in progress
tradingVars == <<isTrading, closeAll, activePositions, toClose,
                 emergencyStarted, tick, orders>>

\* the variables of each part before it has run
BacktestIdle ==
  /\ n = 0
  /\ phase = 0
  /\ rsiPattern = <<>>
  /\ positionSizePercent = 0
  /\ stopLossPercent = 0
  /\ takeProfitPercent = 0
  /\ i = 0
  /\ candleClose = 0
  /\ balance = <<0, 1>>
  /\ equity = <<0, 1>>
  /\ position = <<>>
  /\ trades = <<>>
  /\ equityCurve = <<>>
  /\ monthlyReturns = <<>>
  /\ lastMonthBalance = <<0, 1>>
  /\ maxBalance = <<0, 1>>
  /\ maxDrawdown = <<0, 1>>
  /\ exitReason = ""
  /\ stopTouched = FALSE
  /\ tpTouched = FALSE
  /\ entries = 0
  /\ result = <<>>
  /\ dailyReturns = <<>>

SweepIdle ==
  /\ op = "runBacktest"
  /\ market = <<>>
  /\ run = 0
  /\ bestResult = <<>>
  /\ bestScore = <<0 - 1, 0>>
  /\ lookbackMonths = 0
  /\ results = <<>>
  /\ summary = <<>>

FetchIdle ==
  /\ startTime = 0
  /\ endTime = 0
  /\ currentStartTime = 0
  /\ allKlines = <<>>

RiskIdle ==
  /\ emergencyStopActive = FALSE
  /\ peakValue = 500
  /\ dailyStartBalance = 500
  /\ weeklyStartBalance = 500
  /\ monthlyStartBalance = 500
  /\ call = <<>>
  /\ riskDecision = <<>>

SizingIdle == sizing = <<>>

StrategyIdle ==
  /\ indicators = <<>>
  /\ signal = <<>>

TradingIdle ==
  /\ isTrading = TRUE
  /\ closeAll = "idle"
  /\ activePositions = 0
  /\ toClose = 0
  /\ emergencyStarted = FALSE
  /\ tick = <<>>
  /\ orders = 0

(***************************************************************************)
(* Candle series and indicator series                                      *)
(***************************************************************************)
\* historicalData[bar].timestamp, in hours
Timestamp(bar) == StartHour + bar

\* new Date(ts).toISOString().slice(0, 7), months of 30 days
MonthOf(ts) == ts \div (30 * 24)

\* technicalindicators RSI.calculate: one value per price after the first `period`
calculateRSILength(len, period) == IF len > period THEN len - period ELSE 0

\* technicalindicators EMA.calculate: the first value is the average of the first `period` prices
calculateEMALength(len, period) == IF len >= period THEN len - period + 1 ELSE 0

\* the short EMA moves around a flat long EMA
emaShortPattern == <<99, 101, 99>>
emaLongPattern == <<100, 100, 100>>
RsiPatterns == {<<50, 25, 75>>, <<50, 25, 50>>, <<50, 50, 75>>}

\* array[idx]: <<value>>, or <<>> (undefined) outside the array
ArrayAt(pattern, len, idx) ==
  IF idx >= 0 /\ idx < len
  THEN <<pattern[((idx + phase) % Len(pattern)) + 1]>>
  ELSE <<>>

rsiValuesLength == calculateRSILength(n, rsiPeriod)
emaShortLength == calculateEMALength(n, emaShortPeriod)
emaLongLength == calculateEMALength(n, emaLongPeriod)

rsiValues(idx) == ArrayAt(rsiPattern, rsiValuesLength, idx)
emaShort(idx) == ArrayAt(emaShortPattern, emaShortLength, idx)
emaLong(idx) == ArrayAt(emaLongPattern, emaLongLength, idx)

\* the index runBacktest uses to pair bar `bar` with a series of length seriesLength
PairedIndex(bar, seriesLength) == bar - (seriesLength - n)

\* the index of the value whose window ends at bar `bar`
AlignedIndex(bar, seriesLength) == bar - (n - seriesLength)

rsiAt(bar) == rsiValues(PairedIndex(bar, rsiValuesLength))
shortEmaAt(bar) == emaShort(PairedIndex(bar, emaShortLength))
longEmaAt(bar) == emaLong(PairedIndex(bar, emaLongLength))

\* a < b on numbers that may be undefined: false when either is undefined
JsLt(a, b) == a # <<>> /\ b # <<>> /\ a[1] < b[1]
JsGt(a, b) == JsLt(b, a)

(***************************************************************************)
(* Signals                                                                 *)
(***************************************************************************)
LongSignal(prevShortEma, prevLongEma, shortEma, longEma, rsi) ==
  /\ JsLt(prevShortEma, prevLongEma)
  /\ JsGt(shortEma, longEma)
  /\ JsLt(rsi, <<rsiOversold>>)

ShortSignal(prevShortEma, prevLongEma, shortEma, longEma, rsi) ==
  /\ JsGt(prevShortEma, prevLongEma)
  /\ JsLt(shortEma, longEma)
  /\ JsGt(rsi, <<rsiOverbought>>)

LongSignalAt(bar) ==
  LongSignal(shortEmaAt(bar - 1), longEmaAt(bar - 1), shortEmaAt(bar), longEmaAt(bar), rsiAt(bar))

ShortSignalAt(bar) ==
  ShortSignal(shortEmaAt(bar - 1), longEmaAt(bar - 1), shortEmaAt(bar), longEmaAt(bar), rsiAt(bar))

(***************************************************************************)
(* Positions and trades                                                    *)
(***************************************************************************)
Percent(x) == RDiv(R(x), R(100))

\* the levels of a LONG given to a SHORT as well
OpenPositionLongLevels(side, close, bar) ==
  LET positionSize == RDiv(RMul(balance, Percent(positionSizePercent)), R(close))
      entryPrice == R(close)
  IN  [side |-> side,
       entryPrice |-> entryPrice,
       stopLoss |-> RMul(entryPrice, RSub(R(1), Percent(stopLossPercent))),
       takeProfit |-> RMul(entryPrice, RAdd(R(1), Percent(takeProfitPercent))),
       size |-> positionSize,
       timestamp |-> Timestamp(bar)]

OpenPosition(side, close, bar) ==
  LET positionSize == RDiv(RMul(balance, Percent(positionSizePercent)), R(close))
      entryPrice == R(close)
      down(pct) == RMul(entryPrice, RSub(R(1), Percent(pct)))
      up(pct) == RMul(entryPrice, RAdd(R(1), Percent(pct)))
  IN  [side |-> side,
       entryPrice |-> entryPrice,
       stopLoss |-> IF side = "BUY" THEN down(stopLossPercent) ELSE up(stopLossPercent),
       takeProfit |-> IF side = "BUY" THEN up(takeProfitPercent) ELSE down(takeProfitPercent),
       size |-> positionSize,
       timestamp |-> Timestamp(bar)]

StopLossTouched(pos, low, high) ==
  \/ pos.side = "BUY" /\ RLe(R(low), pos.stopLoss)
  \/ pos.side = "SELL" /\ RGe(R(high), pos.stopLoss)

\* the take-profit check left out
TakeProfitTouchedNever(pos, low, high) == FALSE

TakeProfitTouched(pos, low, high) ==
  \/ pos.side = "BUY" /\ RGe(R(high), pos.takeProfit)
  \/ pos.side = "SELL" /\ RLe(R(low), pos.takeProfit)

TrendReversal(pos, bar) ==
  \/ pos.side = "BUY" /\ ShortSignalAt(bar)
  \/ pos.side = "SELL" /\ LongSignalAt(bar)

\* the exit checks with the take-profit check ahead of the stop-loss check
ExitDecisionTakeProfitFirst(pos, low, high, close, bar) ==
  IF TakeProfitTouched(pos, low, high)
  THEN [closePosition |-> TRUE, exitPrice |-> pos.takeProfit, exitReason |-> "take-profit"]
  ELSE IF StopLossTouched(pos, low, high)
  THEN [closePosition |-> TRUE, exitPrice |-> pos.stopLoss, exitReason |-> "stop-loss"]
  ELSE IF TrendReversal(pos, bar)
  THEN [closePosition |-> TRUE, exitPrice |-> R(close), exitReason |-> "reversal"]
  ELSE [closePosition |-> FALSE, exitPrice |-> R(close), exitReason |-> ""]

\* the exit checks of one bar, in the order of the code
ExitDecision(pos, low, high, close, bar) ==
  IF StopLossTouched(pos, low, high)
  THEN [closePosition |-> TRUE, exitPrice |-> pos.stopLoss, exitReason |-> "stop-loss"]
  ELSE IF TakeProfitTouched(pos, low, high)
  THEN [closePosition |-> TRUE, exitPrice |-> pos.takeProfit, exitReason |-> "take-profit"]
  ELSE IF TrendReversal(pos, bar)
  THEN [closePosition |-> TRUE, exitPrice |-> R(close), exitReason |-> "reversal"]
  ELSE [closePosition |-> FALSE, exitPrice |-> R(close), exitReason |-> ""]

\* the LONG formula used for both sides
ProfitLongOnly(pos, exitPrice) == RMul(pos.size, RSub(exitPrice, pos.entryPrice))

Profit(pos, exitPrice) ==
  IF pos.side = "BUY"
  THEN RMul(pos.size, RSub(exitPrice, pos.entryPrice))
  ELSE RMul(pos.size, RSub(pos.entryPrice, exitPrice))

\* a trade stamped with the candle before the exit candle
MakeTradeEarlyStamp(pos, exitPrice, exitTimestamp) ==
  LET profit == Profit(pos, exitPrice)
  IN  [entryDate |-> pos.timestamp,
       entryPrice |-> pos.entryPrice,
       exitDate |-> exitTimestamp - 1,
       exitPrice |-> exitPrice,
       side |-> pos.side,
       profit |-> profit,
       profitPercent |-> RMul(RDiv(profit, RMul(pos.size, pos.entryPrice)), R(100)),
       duration |-> (exitTimestamp - 1) - pos.timestamp]

MakeTrade(pos, exitPrice, exitTimestamp) ==
  LET profit == Profit(pos, exitPrice)
  IN  [entryDate |-> pos.timestamp,
       entryPrice |-> pos.entryPrice,
       exitDate |-> exitTimestamp,
       exitPrice |-> exitPrice,
       side |-> pos.side,
       profit |-> profit,
       profitPercent |-> RMul(RDiv(profit, RMul(pos.size, pos.entryPrice)), R(100)),
       duration |-> exitTimestamp - pos.timestamp]


(***************************************************************************)
(* runBacktest                                                             *)
(***************************************************************************)
Init ==
  /\ pc = "start"
  /\ n \in CandleCounts
  /\ phase \in 0..(Len(emaShortPattern) - 1)
  /\ rsiPattern \in RsiPatterns
  /\ \E p \in ParamSet :
       /\ positionSizePercent = p[1]
       /\ stopLossPercent = p[2]
       /\ takeProfitPercent = p[3]
  /\ i = 0
  /\ candleClose = 0
  /\ balance = R(initialBalanceDefault)
  /\ equity = R(initialBalanceDefault)
  /\ position = <<>>
  /\ trades = <<>>
  /\ equityCurve = <<R(initialBalanceDefault)>>
  /\ monthlyReturns = <<>>
  /\ lastMonthBalance = R(initialBalanceDefault)
  /\ maxBalance = R(initialBalanceDefault)
  /\ maxDrawdown = R(0)
  /\ exitReason = ""
  /\ stopTouched = FALSE
  /\ tpTouched = FALSE
  /\ entries = 0
  /\ result = <<>>
  /\ dailyReturns = <<>>
  /\ SweepIdle
  /\ FetchIdle
  /\ RiskIdle
  /\ SizingIdle
  /\ StrategyIdle
  /\ TradingIdle

\* the data is fetched; an empty series is the only one that is rejected
Start ==
  /\ pc = "start"
  /\ pc' = IF n = 0 THEN "error" ELSE "loop"
  /\ i' = IF n = 0 THEN i ELSE StartIndex
  /\ UNCHANGED <<dailyReturns, n, phase, rsiPattern, positionSizePercent,
                 stopLossPercent, takeProfitPercent, candleClose, balance, equity, position,
                 trades, equityCurve, monthlyReturns, lastMonthBalance,
                 maxBalance, maxDrawdown, exitReason, stopTouched, tpTouched,
                 entries, result>>
  /\ UNCHANGED <<sweepVars, fetchVars, riskVars, sizingVars>>
  /\ UNCHANGED <<strategyVars, tradingVars>>

\* the drawdown of the current bar always taken
UpdateMaxDrawdownLatest(currentDrawdown) == currentDrawdown

\* maxDrawdown after a bar with drawdown currentDrawdown
UpdateMaxDrawdown(currentDrawdown) ==
  IF RGt(currentDrawdown, maxDrawdown) THEN currentDrawdown ELSE maxDrawdown

\* the return recorded under the month that begins
MonthKeyCurrent(candleMonth, prevCandleMonth) == candleMonth

\* the key of monthlyReturns written at a month boundary
MonthKey(candleMonth, prevCandleMonth) == prevCandleMonth

\* first half of one loop iteration: month bookkeeping, exit checks,
\* drawdown bookkeeping and the equity sample of bar i
BarExit ==
  /\ pc = "loop"
  /\ i < n
  /\ \E low \in PriceSet, close \in PriceSet, high \in PriceSet :
       /\ low <= close
       /\ close <= high
       /\ i > LastLiveBar => (low = candleClose /\ high = candleClose)
       /\ LET candleMonth == MonthOf(Timestamp(i))
              prevCandleMonth == MonthOf(Timestamp(i - 1))
              monthChanged == candleMonth # prevCandleMonth
              monthlyReturn == RMul(RDiv(RSub(balance, lastMonthBalance), lastMonthBalance), R(100))
              decision == IF position # <<>>
                          THEN ExitDecision(position[1], low, high, close, i)
                          ELSE [closePosition |-> FALSE, exitPrice |-> R(close), exitReason |-> ""]
              closing == decision.closePosition
              trade == MakeTrade(position[1], decision.exitPrice, Timestamp(i))
              newBalance == IF closing THEN RAdd(balance, trade.profit) ELSE balance
              newEquity == IF closing THEN newBalance ELSE equity
              newMaxBalance == IF RGt(newEquity, maxBalance) THEN newEquity ELSE maxBalance
              currentDrawdown == RSub(newMaxBalance, newEquity)
          IN  /\ candleClose' = close
              /\ monthlyReturns' =
                   IF monthChanged
                   THEN [m \in (DOMAIN monthlyReturns)
                                  \cup {MonthKey(candleMonth, prevCandleMonth)} |->
                           IF m = MonthKey(candleMonth, prevCandleMonth)
                           THEN monthlyReturn ELSE monthlyReturns[m]]
                   ELSE monthlyReturns
              /\ lastMonthBalance' = IF monthChanged THEN balance ELSE lastMonthBalance
              /\ stopTouched' = (position # <<>> /\ StopLossTouched(position[1], low, high))
              /\ tpTouched' = (position # <<>> /\ TakeProfitTouched(position[1], low, high))
              /\ exitReason' = decision.exitReason
              /\ balance' = newBalance
              /\ equity' = newEquity
              /\ trades' = IF closing THEN Append(trades, trade) ELSE trades
              /\ position' = IF closing THEN <<>> ELSE position
              /\ maxBalance' = newMaxBalance
              /\ maxDrawdown' = UpdateMaxDrawdown(currentDrawdown)
              /\ equityCurve' = Append(equityCurve, newEquity)
  /\ pc' = "entry"
  /\ UNCHANGED <<dailyReturns, n, phase, rsiPattern, positionSizePercent,
                 stopLossPercent, takeProfitPercent, i, entries, result>>
  /\ UNCHANGED <<sweepVars, fetchVars, riskVars, sizingVars>>
  /\ UNCHANGED <<strategyVars, tradingVars>>

\* the entry checks run whether or not a position is open
NoOpenPositionUnchecked == TRUE

\* `!position` ahead of the entry checks
NoOpenPosition == position = <<>>

\* second half of the iteration: the entry checks of bar i, then i++
BarEntry ==
  /\ pc = "entry"
  /\ IF NoOpenPosition /\ LongSignalAt(i)
     THEN /\ position' = <<OpenPosition("BUY", candleClose, i)>>
          /\ entries' = entries + 1
     ELSE IF NoOpenPosition /\ ShortSignalAt(i)
     THEN /\ position' = <<OpenPosition("SELL", candleClose, i)>>
          /\ entries' = entries + 1
     ELSE UNCHANGED <<position, entries>>
  /\ i' = i + 1
  /\ pc' = "loop"
  /\ stopTouched' = FALSE
  /\ tpTouched' = FALSE
  /\ exitReason' = ""
  /\ UNCHANGED <<dailyReturns, n, phase, rsiPattern, positionSizePercent,
                 stopLossPercent, takeProfitPercent, candleClose, balance, equity, trades,
                 equityCurve, monthlyReturns, lastMonthBalance, maxBalance,
                 maxDrawdown, result>>
  /\ UNCHANGED <<sweepVars, fetchVars, riskVars, sizingVars>>
  /\ UNCHANGED <<strategyVars, tradingVars>>

\* trades with profit >= 0 counted as winning
RECURSIVE CountNonLosing(_)
CountNonLosing(ts) ==
  IF ts = <<>> THEN 0
  ELSE (IF RGe(Head(ts).profit, R(0)) THEN 1 ELSE 0) + CountNonLosing(Tail(ts))

RECURSIVE CountWinning(_)
CountWinning(ts) ==
  IF ts = <<>> THEN 0
  ELSE (IF RGt(Head(ts).profit, R(0)) THEN 1 ELSE 0) + CountWinning(Tail(ts))

\* `x || 0`: NaN and 0 become 0
OrZero(x) == IF x = NaN THEN R(0) ELSE x

\* the forced close left out
ForcedCloseSkipped(ts) == ts

\* the trade log after the forced close of a position that is still open:
\* the exit is the close of the last candle, historicalData[n - 1]
ForcedClose(ts) ==
  IF position # <<>>
  THEN Append(ts, MakeTrade(position[1], R(candleClose), Timestamp(n - 1)))
  ELSE ts

\* the UTC calendar day of a timestamp in hours
DayOf(ts) == ts \div 24

\* candle indices whose day differs from the day of the candle before: the
\* candles at which the daily-return loop finds a new day after the first
DayBoundaries ==
  {b \in 1..(n - 1) : DayOf(Timestamp(b)) # DayOf(Timestamp(b - 1))}

\* the k-th of them in ascending order
BoundaryAt(k) ==
  CHOOSE b \in DayBoundaries : Cardinality({c \in DayBoundaries : c < b}) = k - 1

\* equityCurve[Math.min(i, equityCurve.length - 1)] at the k-th boundary
DailyEquity(curve, k) == curve[Min(BoundaryAt(k), Len(curve) - 1) + 1]

\* the list of daily returns: (equity - prevDayBalance) / prevDayBalance
DailyReturns(curve) ==
  [k \in 1..Cardinality(DayBoundaries) |->
     LET prevDayBalance == IF k = 1 THEN R(initialBalanceDefault)
                           ELSE DailyEquity(curve, k - 1)
     IN  RDiv(RSub(DailyEquity(curve, k), prevDayBalance), prevDayBalance)]

\* after the loop: the forced close, the metrics and the BacktestResult
Finish ==
  /\ pc = "loop"
  /\ i >= n
  /\ LET finalTrades == ForcedClose(trades)
         finalBalance == IF Len(finalTrades) > Len(trades)
                         THEN RAdd(balance, finalTrades[Len(finalTrades)].profit)
                         ELSE balance
         totalProfit == RSub(finalBalance, R(initialBalanceDefault))
         winningTrades == CountWinning(finalTrades)
     IN  /\ balance' = finalBalance
         /\ trades' = finalTrades
         /\ result' = <<[initialBalance |-> R(initialBalanceDefault),
                         finalBalance |-> finalBalance,
                         totalProfit |-> totalProfit,
                         profitPercent |-> RMul(RDiv(totalProfit, R(initialBalanceDefault)), R(100)),
                         totalTrades |-> Len(finalTrades),
                         winningTrades |-> winningTrades,
                         losingTrades |-> Len(finalTrades) - winningTrades,
                         winRate |-> OrZero(RMul(RDiv(R(winningTrades), R(Len(finalTrades))), R(100))),
                         maxDrawdown |-> maxDrawdown,
                         maxDrawdownPercent |-> RMul(RDiv(maxDrawdown, maxBalance), R(100)),
                         trades |-> finalTrades,
                         monthlyReturns |-> monthlyReturns,
                         equityCurve |-> equityCurve]>>
  /\ dailyReturns' = DailyReturns(equityCurve)
  /\ pc' = "done"
  /\ UNCHANGED <<n, phase, rsiPattern, positionSizePercent, stopLossPercent,
                 takeProfitPercent, i, candleClose, equity, position,
                 equityCurve, monthlyReturns, lastMonthBalance, maxBalance,
                 maxDrawdown, exitReason, stopTouched, tpTouched, entries>>
  /\ UNCHANGED <<sweepVars, fetchVars, riskVars, sizingVars>>
  /\ UNCHANGED <<strategyVars, tradingVars>>

\* the comparator of a sort by profitPercent: b - a when descending, else a - b
CompareProfitPercent(a, b, descending) ==
  IF descending THEN RSub(b.profitPercent, a.profitPercent)
  ELSE RSub(a.profitPercent, b.profitPercent)

\* t placed before the first element that the comparator puts after it
InsertSorted(t, sorted, descending) ==
  LET later == {k \in DOMAIN sorted :
                  RGt(CompareProfitPercent(sorted[k], t, descending), R(0))}
  IN  IF later = {} THEN Append(sorted, t)
      ELSE LET at == CHOOSE k \in later : \A j \in later : k <= j
           IN  SubSeq(sorted, 1, at - 1) \o <<t>> \o SubSeq(sorted, at, Len(sorted))

\* Array.prototype.sort with that comparator (a stable sort)
RECURSIVE SortByProfitPercent(_, _)
SortByProfitPercent(ts, descending) ==
  IF ts = <<>> THEN <<>>
  ELSE InsertSorted(ts[Len(ts)],
                    SortByProfitPercent(SubSeq(ts, 1, Len(ts) - 1), descending),
                    descending)

\* generateBacktestReport on the result of the run: the best-trades table sorts
\* result.trades in place in descending order, the worst-trades table sorts it
\* again in ascending order; the local `trades` is the log as it was appended
GenerateBacktestReport ==
  /\ pc = "done"
  /\ result' = <<[result[1] EXCEPT
                    !.trades = SortByProfitPercent(
                                  SortByProfitPercent(result[1].trades, TRUE),
                                  FALSE)]>>
  /\ pc' = "reported"
  /\ UNCHANGED <<dailyReturns, n, phase, rsiPattern, positionSizePercent,
                 stopLossPercent, takeProfitPercent, i, candleClose, balance, equity, position,
                 trades, equityCurve, monthlyReturns, lastMonthBalance,
                 maxBalance, maxDrawdown, exitReason, stopTouched, tpTouched,
                 entries>>
  /\ UNCHANGED <<sweepVars, fetchVars, riskVars, sizingVars>>
  /\ UNCHANGED <<strategyVars, tradingVars>>

Next == Start \/ BarExit \/ BarEntry \/ Finish \/ GenerateBacktestReport

Spec == Init /\ [][Next]_vars

(***************************************************************************)
(* optimizeStrategy                                                        *)
(***************************************************************************)
\* the parameter grid
positionSizes == <<R(1), R(2), R(5), R(10)>>
stopLosses == <<<<1, 2>>, R(1), <<3, 2>>, R(2)>>
takeProfits == <<R(1), R(2), R(3), R(4)>>

GridSize == Len(positionSizes) * Len(stopLosses) * Len(takeProfits)

\* the parameters of the g-th iteration of the three nested loops:
\* positionSize outermost, takeProfit innermost
GridPoint(g) ==
  [positionSize |-> positionSizes[((g - 1) \div (Len(stopLosses) * Len(takeProfits))) + 1],
   stopLoss |-> stopLosses[(((g - 1) \div Len(takeProfits)) % Len(stopLosses)) + 1],
   takeProfit |-> takeProfits[((g - 1) % Len(takeProfits)) + 1]]

\* metrics of BacktestResults a run can return
ResLoss == [profitPercent |-> R(0 - 2), totalTrades |-> 5, winRate |-> R(40),
            maxDrawdownPercent |-> R(3), sharpeRatio |-> <<0 - 1, 2>>]
ResMid  == [profitPercent |-> R(1), totalTrades |-> 4, winRate |-> R(50),
            maxDrawdownPercent |-> R(1), sharpeRatio |-> R(0)]
ResWinA == [profitPercent |-> R(3), totalTrades |-> 4, winRate |-> R(50),
            maxDrawdownPercent |-> R(2), sharpeRatio |-> R(1)]
ResWinB == [profitPercent |-> R(4), totalTrades |-> 2, winRate |-> R(50),
            maxDrawdownPercent |-> R(1), sharpeRatio |-> <<1, 2>>]
ResNeg  == [profitPercent |-> R(0 - 5), totalTrades |-> 3, winRate |-> R(0),
            maxDrawdownPercent |-> R(6), sharpeRatio |-> R(0 - 1)]
ResTop  == [profitPercent |-> R(10), totalTrades |-> 5, winRate |-> R(60),
            maxDrawdownPercent |-> R(1), sharpeRatio |-> R(1)]
\* a run without a trade
ResFlat == [profitPercent |-> R(0), totalTrades |-> 0, winRate |-> R(0),
            maxDrawdownPercent |-> R(0), sharpeRatio |-> R(0 - 105)]

\* results along the grid, repeated; the lengths are odd so that equal
\* results fall on different parameters
ResultPatterns == {<<ResLoss, ResMid, ResWinA, ResMid, ResWinB>>,
                   <<ResMid, ResWinB, ResLoss, ResWinA, ResFlat>>,
                   <<ResNeg, ResNeg, ResNeg>>}

\* grid points where one run stands out with ResTop; 0 for none
PeakSet == {0, 1, 30, GridSize}

\* the candle data seen through runBacktest: what each grid point returns
Markets ==
  {[pattern |-> pt, shift |-> sh, peak |-> pk] :
      pt \in ResultPatterns, sh \in 0..2, pk \in PeakSet}

\* the BacktestResult of the run with the parameters of grid point g
ResultAt(m, g) ==
  IF g = m.peak THEN ResTop
  ELSE m.pattern[((g - 1 + m.shift) % Len(m.pattern)) + 1]

\* the composite score of a result
Score(r) ==
  RAdd(RAdd(RSub(RMul(r.profitPercent, R(2)), RMul(r.maxDrawdownPercent, R(3))),
            RMul(r.sharpeRatio, R(10))),
       RMul(r.winRate, <<1, 2>>))

\* a result as good as the best one replaces it
BetterOrEqual(score, best) == RGe(score, best)

\* `score > bestScore`
Better(score, best) == RGt(score, best)

\* one iteration of the innermost loop: the run and the comparison
OptimizeRun ==
  /\ op = "optimizeStrategy"
  /\ pc = "sweep"
  /\ run <= GridSize
  /\ LET r == ResultAt(market, run)
         score == Score(r)
     IN  IF Better(score, bestScore)
         THEN /\ bestScore' = score
              /\ bestResult' = <<[profitPercent |-> r.profitPercent,
                                  totalTrades |-> r.totalTrades,
                                  winRate |-> r.winRate,
                                  maxDrawdownPercent |-> r.maxDrawdownPercent,
                                  sharpeRatio |-> r.sharpeRatio,
                                  parameters |-> GridPoint(run),
                                  score |-> score]>>
         ELSE UNCHANGED <<bestScore, bestResult>>
  /\ run' = run + 1
  /\ UNCHANGED <<pc, op, market, lookbackMonths, results, summary>>
  /\ UNCHANGED <<backtestVars, fetchVars, riskVars, sizingVars>>
  /\ UNCHANGED <<strategyVars, tradingVars>>

\* runBacktest throws (no candles for the period, or the exchange fails):
\* the catch block logs and throws the error again
OptimizeRunThrows ==
  /\ op = "optimizeStrategy"
  /\ pc = "sweep"
  /\ run <= GridSize
  /\ pc' = "thrown"
  /\ UNCHANGED <<op, market, run, bestResult, bestScore, lookbackMonths,
                 results, summary>>
  /\ UNCHANGED <<backtestVars, fetchVars, riskVars, sizingVars>>
  /\ UNCHANGED <<strategyVars, tradingVars>>

\* after the loops: bestResult.parameters is read and bestResult returned
OptimizeReturn ==
  /\ op = "optimizeStrategy"
  /\ pc = "sweep"
  /\ run > GridSize
  /\ pc' = IF bestResult = <<>> THEN "thrown" ELSE "returned"
  /\ UNCHANGED <<op, market, run, bestResult, bestScore, lookbackMonths,
                 results, summary>>
  /\ UNCHANGED <<backtestVars, fetchVars, riskVars, sizingVars>>
  /\ UNCHANGED <<strategyVars, tradingVars>>

(***************************************************************************)
(* validateStrategyRobustness                                              *)
(***************************************************************************)
\* the results a window's run can return
WindowResults == {ResLoss, ResMid, ResWinA, ResWinB, ResNeg, ResTop, ResFlat}

\* numbers of windows asked for
MonthCounts == 1..MaxMonths

\* the largest r in lo..hi with r * r <= x
RECURSIVE ISqrtBetween(_, _, _)
ISqrtBetween(x, lo, hi) ==
  IF lo >= hi THEN lo
  ELSE LET mid == (lo + hi + 1) \div 2
       IN  IF mid * mid <= x THEN ISqrtBetween(x, mid, hi)
           ELSE ISqrtBetween(x, lo, mid - 1)

ISqrt(x) == ISqrtBetween(x, 0, Min(x, 46340))

\* Math.sqrt: exact on the square of a rational, otherwise rounded down to
\* a multiple of 1 / (denominator * SqrtScale)
Sqrt(a) ==
  IF a = NaN \/ (IsFinite(a) /\ a[1] < 0) THEN NaN
  ELSE IF ~IsFinite(a) THEN a
  ELSE LET nd == a[1] * a[2]
           r == ISqrt(nd)
       IN  IF r * r = nd THEN RNorm(r, a[2])
           ELSE RNorm(ISqrt(nd * SqrtScale * SqrtScale), a[2] * SqrtScale)

\* reduce((sum, x) => sum + x, 0)
RECURSIVE Sum(_)
Sum(xs) == IF xs = <<>> THEN R(0) ELSE RAdd(Head(xs), Sum(Tail(xs)))

Mean(xs) == RDiv(Sum(xs), R(Len(xs)))

\* the square root of the mean squared deviation from avg
StdDev(xs, avg) ==
  Sqrt(RDiv(Sum([k \in DOMAIN xs |-> RMul(RSub(xs[k], avg), RSub(xs[k], avg))]),
            R(Len(xs))))

\* windows that did not lose counted as profitable
CountNonNegative(ps) == Cardinality({k \in DOMAIN ps : RGe(ps[k], R(0))})

\* profitPercents.filter(p => p > 0).length
CountProfitable(ps) == Cardinality({k \in DOMAIN ps : RGt(ps[k], R(0))})

\* a deviation below 1 replaced by 1
AtLeastOne(x) == IF RGt(x, R(1)) THEN x ELSE R(1)

\* `x || 1`: NaN and 0 become 1
OrOne(x) == IF x = NaN \/ x = R(0) THEN R(1) ELSE x

\* the loop body: the run of window `run` and its monthly result
ValidateRun ==
  /\ op = "validateStrategyRobustness"
  /\ pc = "sweep"
  /\ run <= lookbackMonths
  /\ \E r \in WindowResults :
       results' = Append(results, [profitPercent |-> r.profitPercent,
                                   trades |-> r.totalTrades,
                                   winRate |-> r.winRate,
                                   maxDrawdownPercent |-> r.maxDrawdownPercent,
                                   sharpeRatio |-> r.sharpeRatio])
  /\ run' = run + 1
  /\ UNCHANGED <<pc, op, market, bestResult, bestScore, lookbackMonths, summary>>
  /\ UNCHANGED <<backtestVars, fetchVars, riskVars, sizingVars>>
  /\ UNCHANGED <<strategyVars, tradingVars>>

\* runBacktest throws for the window: the catch block logs and throws again
ValidateRunThrows ==
  /\ op = "validateStrategyRobustness"
  /\ pc = "sweep"
  /\ run <= lookbackMonths
  /\ pc' = "thrown"
  /\ UNCHANGED <<op, market, run, bestResult, bestScore, lookbackMonths,
                 results, summary>>
  /\ UNCHANGED <<backtestVars, fetchVars, riskVars, sizingVars>>
  /\ UNCHANGED <<strategyVars, tradingVars>>

\* after the loop: the summary over the monthly results
ValidateReturn ==
  /\ op = "validateStrategyRobustness"
  /\ pc = "sweep"
  /\ run > lookbackMonths
  /\ LET profitPercents == [k \in DOMAIN results |-> results[k].profitPercent]
         avgProfit == Mean(profitPercents)
         profitStdDev == StdDev(profitPercents, avgProfit)
         profitableMonths == CountProfitable(profitPercents)
         profitableMonthsPercent ==
            RMul(RDiv(R(profitableMonths), R(lookbackMonths)), R(100))
     IN  summary' =
           <<[avgProfitPercent |-> avgProfit,
              profitStdDev |-> profitStdDev,
              avgWinRate |-> Mean([k \in DOMAIN results |-> results[k].winRate]),
              avgDrawdown |-> Mean([k \in DOMAIN results |-> results[k].maxDrawdownPercent]),
              profitableMonths |-> profitableMonths,
              profitableMonthsPercent |-> profitableMonthsPercent,
              robustnessFactor |->
                 RMul(RMul(IF RGt(avgProfit, R(0)) THEN R(1) ELSE R(0),
                           RDiv(avgProfit, OrOne(profitStdDev))),
                      RDiv(profitableMonthsPercent, R(100)))]>>
  /\ pc' = "returned"
  /\ UNCHANGED <<op, market, run, bestResult, bestScore, lookbackMonths, results>>
  /\ UNCHANGED <<backtestVars, fetchVars, riskVars, sizingVars>>
  /\ UNCHANGED <<strategyVars, tradingVars>>

(***************************************************************************)
(* The two sweeps as one specification                                     *)
(***************************************************************************)
InitSweep ==
  /\ pc = "sweep"
  /\ \/ op = "optimizeStrategy" /\ market \in Markets /\ lookbackMonths = 0
     \/ op = "validateStrategyRobustness" /\ market = <<>>
          /\ lookbackMonths \in MonthCounts
  /\ run = 1
  /\ bestResult = <<>>
  /\ bestScore = <<0 - 1, 0>>
  /\ results = <<>>
  /\ summary = <<>>
  /\ BacktestIdle
  /\ FetchIdle
  /\ RiskIdle
  /\ SizingIdle
  /\ StrategyIdle
  /\ TradingIdle

NextSweep ==
  \/ OptimizeRun
  \/ OptimizeRunThrows
  \/ OptimizeReturn
  \/ ValidateRun
  \/ ValidateRunThrows
  \/ ValidateReturn

SpecSweep == InitSweep /\ [][NextSweep]_vars

(***************************************************************************)
(* fetchHistoricalData, from the exchange                                  *)
(***************************************************************************)
\* timestamps of the candles the exchange holds
TimeSet == 0..MaxTime

\* the elements of a set of timestamps in ascending order
RECURSIVE Ascending(_)
Ascending(ts) ==
  IF ts = {} THEN <<>>
  ELSE LET first == CHOOSE t \in ts : \A u \in ts : t <= u
       IN  <<first>> \o Ascending(ts \ {first})

\* the pages getKlines can answer with for a start time: strictly ascending,
\* no candle before the start time, at most PageLimit candles, possibly none
PagesFrom(start) ==
  {Ascending(ts) : ts \in {c \in SUBSET {t \in TimeSet : t >= start} :
                              Cardinality(c) <= PageLimit}}

\* the next page asked from the last candle of this one again
NextStartTimeSame(lastKlineTime) == lastKlineTime

\* the start of the next page
NextStartTime(lastKlineTime) == lastKlineTime + 1

InitFetch ==
  /\ pc = "fetch"
  /\ startTime \in {0, 1}
  /\ endTime \in {3, MaxTime}
  /\ currentStartTime = startTime
  /\ allKlines = <<>>
  /\ BacktestIdle
  /\ SweepIdle
  /\ RiskIdle
  /\ SizingIdle
  /\ StrategyIdle
  /\ TradingIdle

\* one iteration of the paging loop that gets candles
FetchPage ==
  /\ pc = "fetch"
  /\ currentStartTime < endTime
  /\ \E klines \in PagesFrom(currentStartTime) :
       /\ klines # <<>>
       /\ allKlines' = allKlines \o klines
       /\ currentStartTime' = NextStartTime(klines[Len(klines)])
  /\ UNCHANGED <<pc, startTime, endTime>>
  /\ UNCHANGED <<backtestVars, sweepVars, riskVars, sizingVars>>
  /\ UNCHANGED <<strategyVars, tradingVars>>

\* the end of the loop, by its condition or on an empty page; the candles
\* are returned, or [] from the catch block when saving them fails
FetchReturn ==
  /\ pc = "fetch"
  /\ currentStartTime >= endTime \/ <<>> \in PagesFrom(currentStartTime)
  /\ allKlines' \in {allKlines, <<>>}
  /\ pc' = "fetched"
  /\ UNCHANGED <<startTime, endTime, currentStartTime>>
  /\ UNCHANGED <<backtestVars, sweepVars, riskVars, sizingVars>>
  /\ UNCHANGED <<strategyVars, tradingVars>>

NextFetch == FetchPage \/ FetchReturn

SpecFetch == InitFetch /\ [][NextFetch]_vars


(***************************************************************************)
(* RiskManagementService (src/unnamed/part_002) with its                   *)
(* DrawdownControllerService (src/unnamed/part_001) and                    *)
(* PositionSizingService (position-sizing.service.ts)                      *)
(*                                                                         *)
(* The reason of a decision is named by the check that produced it:        *)
(* "balance" (the balance could not be read), "emergencyStop", "drawdown", *)
(* "dailyLoss", "weeklyLoss", "riskScore", "positions", and "passed" for   *)
(* an approval.                                                            *)
(***************************************************************************)
\* riskLimits with an empty configuration
maxDrawdownPercent == 15
maxDailyLossPercent == 3
maxWeeklyLossPercent == 8
maxPositionSizePercent == 10
maxOpenPositions == 3
maxRiskScore == 75

\* the wallet balances the exchange reports; 0 stands for a balance that
\* could not be read (null) or is zero
BalanceSet == {500, 910, 970, 1000}

\* the positions the exchange lists: `active` of size 0.1 after `closed` of
\* size 0
PositionList(active, closed) ==
  [k \in 1..(closed + active) |-> IF k <= closed THEN R(0) ELSE <<1, 10>>]

\* what a call of evaluateTradeRisk meets: the side and the market
\* volatility it is given and the positions the exchange lists
TradeSet ==
  {[side |-> "BUY", marketVolatility |-> <<6, 5>>,
    positions |-> PositionList(0, 0)],
   [side |-> "SELL", marketVolatility |-> <<4, 5>>,
    positions |-> PositionList(MaxPositions, 0)],
   [side |-> "BUY", marketVolatility |-> R(2),
    positions |-> PositionList(maxOpenPositions - 1, 2)],
   [side |-> "SELL", marketVolatility |-> <<6, 5>>,
    positions |-> PositionList(maxOpenPositions - 1, 0)]}

\* DrawdownControllerService.calculateRiskScore
calculateRiskScore(currentDrawdown, dailyPnL, weeklyPnL) ==
  LET drawdownPart == RMin(R(50), RMul(RDiv(currentDrawdown, R(15)), R(50)))
      dailyPart == IF RLt(dailyPnL, R(0 - 2))
                   THEN RMin(R(25), RMul(RDiv(RAbs(dailyPnL), R(5)), R(25)))
                   ELSE R(0)
      weeklyPart == IF RLt(weeklyPnL, R(0 - 5))
                    THEN RMin(R(25), RMul(RDiv(RAbs(weeklyPnL), R(10)), R(25)))
                    ELSE R(0)
  IN  RMin(R(100), RAdd(RAdd(drawdownPart, dailyPart), weeklyPart))

\* (currentBalance - start) / start * 100
PnLPercent(currentBalance, start) ==
  RMul(RDiv(R(currentBalance - start), R(start)), R(100))

\* the peak follows the balance down as well as up
PeakAfterAlways(currentBalance) == currentBalance

\* the peak after updateDrawdownMetrics(currentBalance)
PeakAfter(currentBalance) ==
  IF currentBalance > peakValue THEN currentBalance ELSE peakValue

\* the RiskMetrics updateDrawdownMetrics(currentBalance) returns
updateDrawdownMetrics(currentBalance) ==
  LET peak == PeakAfter(currentBalance)
      currentDrawdown == RMul(RDiv(R(peak - currentBalance), R(peak)), R(100))
      dailyPnL == PnLPercent(currentBalance, dailyStartBalance)
      weeklyPnL == PnLPercent(currentBalance, weeklyStartBalance)
  IN  [currentDrawdown |-> currentDrawdown,
       dailyPnL |-> dailyPnL,
       weeklyPnL |-> weeklyPnL,
       monthlyPnL |-> PnLPercent(currentBalance, monthlyStartBalance),
       accountValue |-> currentBalance,
       riskScore |-> calculateRiskScore(currentDrawdown, dailyPnL, weeklyPnL)]

\* the size is returned without the maximum applied
ApplyMaximumNever(finalPositionSize, maxPositionValue) == finalPositionSize

\* finalPositionSize = Math.min(finalPositionSize, maxPositionValue)
ApplyMaximum(finalPositionSize, maxPositionValue) ==
  RMin(finalPositionSize, maxPositionValue)

\* PositionSizingService.calculatePositionSize
calculatePositionSize(params) ==
  LET riskAmount == RMul(params.accountBalance,
                         RDiv(params.riskPerTradePercent, R(100)))
      basePositionSize == RDiv(riskAmount, RDiv(params.stopLossPercent, R(100)))
      volatilityAdjustment ==
        RMax(<<1, 10>>,
             RSub(R(1), RMul(RSub(params.volatility, R(1)), <<1, 2>>)))
      maxPositionValue == RMul(params.accountBalance,
                               RDiv(params.maxPositionPercent, R(100)))
  IN  ApplyMaximum(RMul(basePositionSize, volatilityAdjustment),
                   maxPositionValue)

\* PositionSizingService.calculateDynamicStopLoss
calculateDynamicStopLoss(entryPrice, side, volatility, baseStopLossPercent) ==
  LET volatilityMultiplier == RMax(<<1, 2>>, RMin(R(2), volatility))
      adjustedStopLoss == RMul(baseStopLossPercent, volatilityMultiplier)
  IN  IF side = "BUY"
      THEN RMul(entryPrice, RSub(R(1), RDiv(adjustedStopLoss, R(100))))
      ELSE RMul(entryPrice, RAdd(R(1), RDiv(adjustedStopLoss, R(100))))

createRejectionDecision(reason) ==
  [canTrade |-> FALSE,
   recommendedPositionSize |-> R(0),
   adjustedStopLoss |-> R(0),
   adjustedTakeProfit |-> R(0),
   riskLevel |-> "CRITICAL",
   reason |-> reason]

determineRiskLevel(riskScore, volatility) ==
  LET combinedRisk == RAdd(RMul(RDiv(riskScore, R(100)), <<7, 10>>),
                           RMul(RDiv(volatility, R(3)), <<3, 10>>))
  IN  IF RLt(combinedRisk, <<3, 10>>) THEN "LOW"
      ELSE IF RLt(combinedRisk, <<6, 10>>) THEN "MEDIUM"
      ELSE IF RLt(combinedRisk, <<8, 10>>) THEN "HIGH"
      ELSE "CRITICAL"

\* openPositions.filter(pos => parseFloat(pos.size) > 0).length
ActivePositions(openPositions) ==
  Cardinality({k \in 1..Len(openPositions) : RGt(openPositions[k], R(0))})

\* the decision of evaluateTradeRisk when every check has passed
ApprovalDecision(accountBalance, riskMetrics, entryPrice, side, marketVolatility) ==
  [canTrade |-> TRUE,
   recommendedPositionSize |->
     calculatePositionSize([accountBalance |-> R(accountBalance),
                            volatility |-> marketVolatility,
                            stopLossPercent |-> <<3, 2>>,
                            riskPerTradePercent |-> R(1),
                            maxPositionPercent |-> R(maxPositionSizePercent)]),
   adjustedStopLoss |->
     calculateDynamicStopLoss(entryPrice, side, marketVolatility, <<3, 2>>),
   adjustedTakeProfit |->
     IF side = "BUY"
     THEN RMul(entryPrice, RAdd(R(1), RMul(<<3, 100>>, marketVolatility)))
     ELSE RMul(entryPrice, RSub(R(1), RMul(<<3, 100>>, marketVolatility))),
   riskLevel |-> determineRiskLevel(riskMetrics.riskScore, marketVolatility),
   reason |-> "passed"]

\* the daily-loss check rejects at the limit as well
DailyLossExceededAtLimit(dailyPnL) ==
  RLe(dailyPnL, R(0 - maxDailyLossPercent))

\* riskMetrics.dailyPnL < -this.riskLimits.maxDailyLossPercent
DailyLossExceeded(dailyPnL) ==
  RLt(dailyPnL, R(0 - maxDailyLossPercent))

\* every listed position is counted
PositionLimitReachedAll(openPositions) ==
  Len(openPositions) >= maxOpenPositions

\* activePositions.length >= this.riskLimits.maxOpenPositions
PositionLimitReached(openPositions) ==
  ActivePositions(openPositions) >= maxOpenPositions

\* the drawdown check is never taken
DrawdownExceededNever(currentDrawdown) == FALSE

\* riskMetrics.currentDrawdown > this.riskLimits.maxDrawdownPercent
DrawdownExceeded(currentDrawdown) ==
  RGt(currentDrawdown, R(maxDrawdownPercent))

\* the checks of evaluateTradeRisk after the balance was read, in their order
RiskChecks(accountBalance, riskMetrics, stopped, openPositions, entryPrice, side, marketVolatility) ==
  IF stopped THEN createRejectionDecision("emergencyStop")
  ELSE IF DrawdownExceeded(riskMetrics.currentDrawdown)
  THEN createRejectionDecision("drawdown")
  ELSE IF DailyLossExceeded(riskMetrics.dailyPnL)
  THEN createRejectionDecision("dailyLoss")
  ELSE IF RLt(riskMetrics.weeklyPnL, R(0 - maxWeeklyLossPercent))
  THEN createRejectionDecision("weeklyLoss")
  ELSE IF RGt(riskMetrics.riskScore, R(maxRiskScore))
  THEN createRejectionDecision("riskScore")
  ELSE IF PositionLimitReached(openPositions)
  THEN createRejectionDecision("positions")
  ELSE ApprovalDecision(accountBalance, riskMetrics, entryPrice, side,
                        marketVolatility)

\* the emergency stop follows the drawdown check of the latest call
StopAfterLatest(stopped, exceeded) == exceeded

\* emergencyStopActive after the checks: activateEmergencyStop sets it, no
\* check clears it
StopAfter(stopped, exceeded) == stopped \/ exceeded

\* an operation other than evaluateTradeRisk returns no decision
NoDecision(operation) ==
  /\ call' = <<[op |-> operation]>>
  /\ riskDecision' = <<>>

InitRisk ==
  /\ pc = "risk"
  /\ RiskIdle
  /\ SizingIdle
  /\ StrategyIdle
  /\ TradingIdle
  /\ BacktestIdle
  /\ SweepIdle
  /\ FetchIdle

\* evaluateTradeRisk(entryPrice, side, marketVolatility) with the balance and
\* the positions the exchange answers with
EvaluateTradeRisk ==
  /\ pc = "risk"
  /\ \E accountBalance \in BalanceSet \cup {0}, trade \in TradeSet :
       LET entryPrice == R(50000)
           side == trade.side
           marketVolatility == trade.marketVolatility
           openPositions == trade.positions
           Given(metrics) == [op |-> "evaluateTradeRisk",
                              balance |-> accountBalance,
                              entryPrice |-> entryPrice,
                              side |-> side,
                              marketVolatility |-> marketVolatility,
                              positions |-> openPositions,
                              stopped |-> emergencyStopActive,
                              metrics |-> metrics]
       IN  IF accountBalance = 0
           THEN /\ call' = <<Given(<<>>)>>
                /\ riskDecision' = <<createRejectionDecision("balance")>>
                /\ UNCHANGED <<emergencyStopActive, peakValue>>
           ELSE LET riskMetrics == updateDrawdownMetrics(accountBalance)
                IN  /\ call' = <<Given(<<riskMetrics>>)>>
                    /\ peakValue' = PeakAfter(accountBalance)
                    /\ riskDecision' =
                         <<RiskChecks(accountBalance, riskMetrics,
                                      emergencyStopActive, openPositions,
                                      entryPrice, side, marketVolatility)>>
                    /\ emergencyStopActive' =
                         StopAfter(emergencyStopActive,
                           DrawdownExceeded(riskMetrics.currentDrawdown))
  /\ UNCHANGED <<pc, dailyStartBalance, weeklyStartBalance,
                 monthlyStartBalance>>
  /\ UNCHANGED <<backtestVars, sweepVars, fetchVars, sizingVars>>
  /\ UNCHANGED <<strategyVars, tradingVars>>

\* resetEmergencyStop()
ResetEmergencyStop ==
  /\ pc = "risk"
  /\ emergencyStopActive' = FALSE
  /\ UNCHANGED <<pc, peakValue, dailyStartBalance, weeklyStartBalance,
                 monthlyStartBalance>>
  /\ NoDecision("resetEmergencyStop")
  /\ UNCHANGED <<backtestVars, sweepVars, fetchVars, sizingVars>>
  /\ UNCHANGED <<strategyVars, tradingVars>>

\* the midnight job: the daily baseline becomes the balance, if it was read
ResetDailyMetrics ==
  /\ pc = "risk"
  /\ \E accountBalance \in BalanceSet \cup {0} :
       dailyStartBalance' =
         IF accountBalance # 0 THEN accountBalance ELSE dailyStartBalance
  /\ UNCHANGED <<pc, emergencyStopActive, peakValue, weeklyStartBalance,
                 monthlyStartBalance>>
  /\ NoDecision("resetDailyMetrics")
  /\ UNCHANGED <<backtestVars, sweepVars, fetchVars, sizingVars>>
  /\ UNCHANGED <<strategyVars, tradingVars>>

\* the weekly job
ResetWeeklyMetrics ==
  /\ pc = "risk"
  /\ \E accountBalance \in BalanceSet \cup {0} :
       weeklyStartBalance' =
         IF accountBalance # 0 THEN accountBalance ELSE weeklyStartBalance
  /\ UNCHANGED <<pc, emergencyStopActive, peakValue, dailyStartBalance,
                 monthlyStartBalance>>
  /\ NoDecision("resetWeeklyMetrics")
  /\ UNCHANGED <<backtestVars, sweepVars, fetchVars, sizingVars>>
  /\ UNCHANGED <<strategyVars, tradingVars>>

\* the monthly job
ResetMonthlyMetrics ==
  /\ pc = "risk"
  /\ \E accountBalance \in BalanceSet \cup {0} :
       monthlyStartBalance' =
         IF accountBalance # 0 THEN accountBalance ELSE monthlyStartBalance
  /\ UNCHANGED <<pc, emergencyStopActive, peakValue, dailyStartBalance,
                 weeklyStartBalance>>
  /\ NoDecision("resetMonthlyMetrics")
  /\ UNCHANGED <<backtestVars, sweepVars, fetchVars, sizingVars>>
  /\ UNCHANGED <<strategyVars, tradingVars>>

\* getCurrentRiskMetrics(): the metrics are computed for monitoring, which
\* moves the peak
GetCurrentRiskMetrics ==
  /\ pc = "risk"
  /\ \E accountBalance \in BalanceSet \cup {0} :
       peakValue' =
         IF accountBalance # 0 THEN PeakAfter(accountBalance) ELSE peakValue
  /\ UNCHANGED <<pc, emergencyStopActive, dailyStartBalance,
                 weeklyStartBalance, monthlyStartBalance>>
  /\ NoDecision("getCurrentRiskMetrics")
  /\ UNCHANGED <<backtestVars, sweepVars, fetchVars, sizingVars>>
  /\ UNCHANGED <<strategyVars, tradingVars>>

NextRisk ==
  \/ EvaluateTradeRisk
  \/ ResetEmergencyStop
  \/ ResetDailyMetrics
  \/ ResetWeeklyMetrics
  \/ ResetMonthlyMetrics
  \/ GetCurrentRiskMetrics

SpecRisk == InitRisk /\ [][NextRisk]_vars

\* the parameters calculatePositionSize is called with
SizingParams ==
  [accountBalance : {R(500), R(1000)},
   volatility : {<<4, 5>>, R(1), <<6, 5>>, R(2), R(MaxVolatility)},
   stopLossPercent : {<<3, 2>>, R(3)},
   riskPerTradePercent : {R(1), R(2)},
   maxPositionPercent : {R(10), R(50), R(100)}]

InitSizing ==
  /\ pc = "sizing"
  /\ SizingIdle
  /\ StrategyIdle
  /\ TradingIdle
  /\ RiskIdle
  /\ BacktestIdle
  /\ SweepIdle
  /\ FetchIdle

\* one call of calculatePositionSize(params)
CalculatePositionSize ==
  /\ pc = "sizing"
  /\ \E params \in SizingParams :
       sizing' = <<[params |-> params, size |-> calculatePositionSize(params)]>>
  /\ UNCHANGED pc
  /\ UNCHANGED <<backtestVars, sweepVars, fetchVars, riskVars>>
  /\ UNCHANGED <<strategyVars, tradingVars>>

NextSizing == CalculatePositionSize

SpecSizing == InitSizing /\ [][NextSizing]_vars

(***************************************************************************)
(* DrawdownControllerService (src/unnamed/part_001) called directly         *)
(***************************************************************************)
\* the balances the controller is given
ReportSet == {400, 500, 800, 900, 950}

InitDrawdown ==
  /\ pc = "drawdown"
  /\ RiskIdle
  /\ SizingIdle
  /\ StrategyIdle
  /\ TradingIdle
  /\ BacktestIdle
  /\ SweepIdle
  /\ FetchIdle

\* updateDrawdownMetrics(currentBalance)
UpdateDrawdownMetrics ==
  /\ pc = "drawdown"
  /\ \E currentBalance \in ReportSet :
       /\ peakValue' = PeakAfter(currentBalance)
       /\ call' = <<[op |-> "updateDrawdownMetrics",
                     balance |-> currentBalance,
                     metrics |-> <<updateDrawdownMetrics(currentBalance)>>]>>
  /\ UNCHANGED <<pc, emergencyStopActive, dailyStartBalance,
                 weeklyStartBalance, monthlyStartBalance, riskDecision>>
  /\ UNCHANGED <<backtestVars, sweepVars, fetchVars, sizingVars>>
  /\ UNCHANGED <<strategyVars, tradingVars>>

\* resetDailyMetrics(currentBalance)
ControllerResetDaily ==
  /\ pc = "drawdown"
  /\ \E currentBalance \in ReportSet : dailyStartBalance' = currentBalance
  /\ call' = <<[op |-> "resetDailyMetrics"]>>
  /\ UNCHANGED <<pc, emergencyStopActive, peakValue, weeklyStartBalance,
                 monthlyStartBalance, riskDecision>>
  /\ UNCHANGED <<backtestVars, sweepVars, fetchVars, sizingVars>>
  /\ UNCHANGED <<strategyVars, tradingVars>>

\* resetWeeklyMetrics(currentBalance)
ControllerResetWeekly ==
  /\ pc = "drawdown"
  /\ \E currentBalance \in ReportSet : weeklyStartBalance' = currentBalance
  /\ call' = <<[op |-> "resetWeeklyMetrics"]>>
  /\ UNCHANGED <<pc, emergencyStopActive, peakValue, dailyStartBalance,
                 monthlyStartBalance, riskDecision>>
  /\ UNCHANGED <<backtestVars, sweepVars, fetchVars, sizingVars>>
  /\ UNCHANGED <<strategyVars, tradingVars>>

\* resetMonthlyMetrics(currentBalance)
ControllerResetMonthly ==
  /\ pc = "drawdown"
  /\ \E currentBalance \in ReportSet : monthlyStartBalance' = currentBalance
  /\ call' = <<[op |-> "resetMonthlyMetrics"]>>
  /\ UNCHANGED <<pc, emergencyStopActive, peakValue, dailyStartBalance,
                 weeklyStartBalance, riskDecision>>
  /\ UNCHANGED <<backtestVars, sweepVars, fetchVars, sizingVars>>
  /\ UNCHANGED <<strategyVars, tradingVars>>

NextDrawdown ==
  \/ UpdateDrawdownMetrics
  \/ ControllerResetDaily
  \/ ControllerResetWeekly
  \/ ControllerResetMonthly

SpecDrawdown == InitDrawdown /\ [][NextDrawdown]_vars

(***************************************************************************)
(* TrendRsiStrategy.analyze (src/src/strategy/trend-rsi.strategy.ts)       *)
(*                                                                         *)
(* The reason of a signal is named by the rule that produced it:           *)
(* "emaCrossOversold", "emaCrossOverbought", "rsiLeftOversold",            *)
(* "rsiEnteredOverbought", "noSignal" (no clear signal), "noData" and      *)
(* "error".                                                                *)
(***************************************************************************)
\* this.rsiOverbought and this.rsiOversold with an empty configuration
liveRsiOverbought == 70
liveRsiOversold == 30

\* the last two values of an EMA series and of the RSI series; <<>> is a
\* series too short to hold the value
EmaSet == {<<>>, <<1>>, <<2>>}
RsiSet == {<<>>, <<20>>, <<liveRsiOversold>>, <<50>>, <<liveRsiOverbought>>,
           <<80>>}

\* what a call of analyze meets: no klines, a step that throws, or klines
\* with the last two values of each indicator
IndicatorSet ==
  [klines : {"none", "throws"}, prevEmaShort : {<<>>}, prevEmaLong : {<<>>},
   lastEmaShort : {<<>>}, lastEmaLong : {<<>>}, prevRsi : {<<>>},
   lastRsi : {<<>>}]
    \cup [klines : {"some"}, prevEmaShort : EmaSet, prevEmaLong : EmaSet,
          lastEmaShort : EmaSet, lastEmaLong : EmaSet, prevRsi : RsiSet,
          lastRsi : RsiSet]

\* the first rule: the short EMA crossed above the long EMA, RSI oversold
EmaCrossOversold(ind) ==
  /\ JsLt(ind.prevEmaShort, ind.prevEmaLong)
  /\ JsGt(ind.lastEmaShort, ind.lastEmaLong)
  /\ JsLt(ind.lastRsi, <<liveRsiOversold>>)

\* the second rule: the short EMA crossed below the long EMA, RSI overbought
EmaCrossOverbought(ind) ==
  /\ JsGt(ind.prevEmaShort, ind.prevEmaLong)
  /\ JsLt(ind.lastEmaShort, ind.lastEmaLong)
  /\ JsGt(ind.lastRsi, <<liveRsiOverbought>>)

\* the third rule: RSI left the oversold zone in an up-trend
RsiLeftOversold(ind) ==
  /\ JsLt(ind.prevRsi, <<liveRsiOversold>>)
  /\ JsGt(ind.lastRsi, <<liveRsiOversold>>)
  /\ JsGt(ind.lastEmaShort, ind.lastEmaLong)

\* the fourth rule without its trend condition
RsiEnteredOverboughtAnyTrend(ind) ==
  /\ JsLt(ind.prevRsi, <<liveRsiOverbought>>)
  /\ JsGt(ind.lastRsi, <<liveRsiOverbought>>)

\* the fourth rule: RSI entered the overbought zone in a down-trend
RsiEnteredOverbought(ind) ==
  /\ JsLt(ind.prevRsi, <<liveRsiOverbought>>)
  /\ JsGt(ind.lastRsi, <<liveRsiOverbought>>)
  /\ JsLt(ind.lastEmaShort, ind.lastEmaLong)

\* the error is passed on to the caller
AnalysisErrorRethrown == [action |-> "throw", reason |-> "error"]

\* the signal of the catch block
AnalysisError == [action |-> "HOLD", reason |-> "error"]

\* the TradeSignal analyze returns
analyze(ind) ==
  IF ind.klines = "throws" THEN AnalysisError
  ELSE IF ind.klines = "none" THEN [action |-> "HOLD", reason |-> "noData"]
  ELSE IF EmaCrossOversold(ind)
  THEN [action |-> "BUY", reason |-> "emaCrossOversold"]
  ELSE IF EmaCrossOverbought(ind)
  THEN [action |-> "SELL", reason |-> "emaCrossOverbought"]
  ELSE IF RsiLeftOversold(ind)
  THEN [action |-> "BUY", reason |-> "rsiLeftOversold"]
  ELSE IF RsiEnteredOverbought(ind)
  THEN [action |-> "SELL", reason |-> "rsiEnteredOverbought"]
  ELSE [action |-> "HOLD", reason |-> "noSignal"]

\* the side runBacktest enters on a bar with these indicator values when no
\* position is open, "" when it enters none
EntrySide(prevShortEma, prevLongEma, shortEma, longEma, rsi) ==
  IF LongSignal(prevShortEma, prevLongEma, shortEma, longEma, rsi) THEN "BUY"
  ELSE IF ShortSignal(prevShortEma, prevLongEma, shortEma, longEma, rsi)
  THEN "SELL"
  ELSE ""

InitStrategy ==
  /\ pc = "strategy"
  /\ StrategyIdle
  /\ TradingIdle
  /\ RiskIdle
  /\ SizingIdle
  /\ BacktestIdle
  /\ SweepIdle
  /\ FetchIdle

\* one call of analyze(), beside the entry check of runBacktest on a bar
\* with the same indicator values; analyze keeps no state, so one call is
\* followed
Analyze ==
  /\ pc = "strategy"
  /\ signal = <<>>
  /\ \E ind \in IndicatorSet :
       /\ indicators' =
            <<[values |-> ind,
               backtestEntry |->
                 EntrySide(ind.prevEmaShort, ind.prevEmaLong,
                           ind.lastEmaShort, ind.lastEmaLong, ind.lastRsi)]>>
       /\ signal' = <<analyze(ind)>>
  /\ UNCHANGED pc
  /\ UNCHANGED <<backtestVars, sweepVars, fetchVars, riskVars, sizingVars>>
  /\ UNCHANGED tradingVars

NextStrategy == Analyze

SpecStrategy == InitStrategy /\ [][NextStrategy]_vars

(***************************************************************************)
(* TradingService (src/unnamed/part_004): the runs of executeTradingLogic  *)
(* the scheduler starts, the emergency close and the trading switch.  Each *)
(* await is a point where the other runs and requests take their steps.    *)
(* A run is "idle" (not running), or waits for "analyze", "klines",        *)
(* "risk", "price" or "place" (the call of placeOrder).                    *)
(***************************************************************************)
Ticks == 1..MaxTicks

InitTrading ==
  /\ pc = "trading"
  /\ isTrading = TRUE
  /\ closeAll = "idle"
  /\ activePositions = 0
  /\ toClose = 0
  /\ emergencyStarted = FALSE
  /\ tick = [t \in Ticks |-> "idle"]
  /\ orders = 0
  /\ StrategyIdle
  /\ RiskIdle
  /\ SizingIdle
  /\ BacktestIdle
  /\ SweepIdle
  /\ FetchIdle

\* what no step of TradingService changes
TradingFrame ==
  /\ UNCHANGED pc
  /\ UNCHANGED <<backtestVars, sweepVars, fetchVars, riskVars, sizingVars>>
  /\ UNCHANGED strategyVars

\* the scheduler starts executeTradingLogic: the run returns at once when
\* trading is paused and goes on to analyze() otherwise
TickStart(t) ==
  /\ pc = "trading"
  /\ tick[t] = "idle"
  /\ tick' = [tick EXCEPT ![t] = IF isTrading THEN "analyze" ELSE "idle"]
  /\ UNCHANGED <<isTrading, closeAll, activePositions, toClose, emergencyStarted, orders>>
  /\ TradingFrame

\* analyze() has answered: the run returns on HOLD
TickAnalyze(t) ==
  /\ pc = "trading"
  /\ tick[t] = "analyze"
  /\ \E action \in {"HOLD", "BUY", "SELL"} :
       tick' = [tick EXCEPT ![t] = IF action = "HOLD" THEN "idle" ELSE "klines"]
  /\ UNCHANGED <<isTrading, closeAll, activePositions, toClose, emergencyStarted, orders>>
  /\ TradingFrame

\* getKlines('15m', 50) has answered; the volatility is computed, or an
\* error is caught and the run returns
TickKlines(t) ==
  /\ pc = "trading"
  /\ tick[t] = "klines"
  /\ \E thrown \in BOOLEAN :
       tick' = [tick EXCEPT ![t] = IF thrown THEN "idle" ELSE "risk"]
  /\ UNCHANGED <<isTrading, closeAll, activePositions, toClose, emergencyStarted, orders>>
  /\ TradingFrame

\* evaluateTradeRisk has answered: the run returns on a rejection
TickRisk(t) ==
  /\ pc = "trading"
  /\ tick[t] = "risk"
  /\ \E canTrade \in BOOLEAN :
       tick' = [tick EXCEPT ![t] = IF canTrade THEN "price" ELSE "idle"]
  /\ UNCHANGED <<isTrading, closeAll, activePositions, toClose, emergencyStarted, orders>>
  /\ TradingFrame

\* openManagedPosition: getKlines('1m', 1) has answered, or an error is
\* caught
TickPrice(t) ==
  /\ pc = "trading"
  /\ tick[t] = "price"
  /\ \E thrown \in BOOLEAN :
       tick' = [tick EXCEPT ![t] = IF thrown THEN "idle" ELSE "place"]
  /\ UNCHANGED <<isTrading, closeAll, activePositions, toClose, emergencyStarted, orders>>
  /\ TradingFrame

\* openManagedPosition: placeOrder is called; the exchange places the order
\* or refuses it
TickPlaceOrder(t) ==
  /\ pc = "trading"
  /\ tick[t] = "place"
  /\ orders < MaxOrders
  /\ \E placed \in BOOLEAN :
       orders' = IF placed THEN orders + 1 ELSE orders
  /\ tick' = [tick EXCEPT ![t] = "idle"]
  /\ UNCHANGED <<isTrading, closeAll, activePositions, toClose, emergencyStarted>>
  /\ TradingFrame

\* POST emergency-stop: emergencyCloseAll begins and asks for the positions
EmergencyStop ==
  /\ pc = "trading"
  /\ closeAll = "idle"
  /\ closeAll' = "positions"
  /\ emergencyStarted' = TRUE
  /\ UNCHANGED <<isTrading, activePositions, toClose, tick, orders>>
  /\ TradingFrame

\* emergencyCloseAll: getPositions has answered with the positions to close;
\* with none to close stopTrading() is called at once; an answer without a
\* list is caught and ends the close
CloseAllPositions ==
  /\ pc = "trading"
  /\ closeAll = "positions"
  /\ \/ \E active \in 1..MaxPositions :
          /\ activePositions' = active
          /\ toClose' = active
          /\ closeAll' = "close"
          /\ UNCHANGED isTrading
     \/ /\ closeAll' = "idle"
        /\ isTrading' = FALSE
        /\ UNCHANGED <<activePositions, toClose>>
     \/ /\ closeAll' = "idle"
        /\ UNCHANGED <<isTrading, activePositions, toClose>>
  /\ UNCHANGED <<emergencyStarted, tick, orders>>
  /\ TradingFrame

\* emergencyCloseAll: closePosition has answered for one position; after
\* the last one the loop is over and stopTrading() is called
CloseOnePosition ==
  /\ pc = "trading"
  /\ closeAll = "close"
  /\ toClose > 0
  /\ IF toClose > 1
       THEN /\ toClose' = toClose - 1
            /\ UNCHANGED <<isTrading, closeAll, activePositions>>
       ELSE /\ toClose' = 0
            /\ activePositions' = 0
            /\ closeAll' = "idle"
            /\ isTrading' = FALSE
  /\ UNCHANGED <<emergencyStarted, tick, orders>>
  /\ TradingFrame

\* POST stop-trading
StopTrading ==
  /\ pc = "trading"
  /\ isTrading' = FALSE
  /\ UNCHANGED <<closeAll, activePositions, toClose, emergencyStarted, tick, orders>>
  /\ TradingFrame

\* POST start-trading
StartTrading ==
  /\ pc = "trading"
  /\ isTrading' = TRUE
  /\ emergencyStarted' = FALSE
  /\ UNCHANGED <<closeAll, activePositions, toClose, tick, orders>>
  /\ TradingFrame

NextTrading ==
  \/ \E t \in Ticks : TickStart(t)
  \/ \E t \in Ticks : TickAnalyze(t)
  \/ \E t \in Ticks : TickKlines(t)
  \/ \E t \in Ticks : TickRisk(t)
  \/ \E t \in Ticks : TickPrice(t)
  \/ \E t \in Ticks : TickPlaceOrder(t)
  \/ EmergencyStop
  \/ CloseAllPositions
  \/ CloseOnePosition
  \/ StopTrading
  \/ StartTrading

SpecTrading == InitTrading /\ [][NextTrading]_vars


(***************************************************************************)
(* Properties                                                              *)
(***************************************************************************)
Last(seq) == seq[Len(seq)]

\* C1: on a bar on which the open position was closed, the entry checks of
\* that bar open no new position.
C1_NoEntryOnExitBar ==
  [][(pc = "entry" /\ exitReason # "") => position' = <<>>]_vars

\* the stop-loss price of a position entered at entryPrice
StopLossOf(side, entryPrice) ==
  IF side = "BUY"
  THEN RMul(entryPrice, RSub(R(1), Percent(stopLossPercent)))
  ELSE RMul(entryPrice, RAdd(R(1), Percent(stopLossPercent)))

\* C2: whenever the bar touched the stop-loss of the open position, the
\* position was closed by the stop-loss and the trade's exit price is the
\* stop-loss price, also when the bar touched the take-profit.
C2_StopLossPrecedence ==
  (pc = "entry" /\ stopTouched) =>
     /\ exitReason = "stop-loss"
     /\ position = <<>>
     /\ trades # <<>>
     /\ Last(trades).exitPrice = StopLossOf(Last(trades).side, Last(trades).entryPrice)
     /\ Last(trades).exitDate = Timestamp(i)

C2_Witness ==
  /\ pc = "entry"
  /\ stopTouched
  /\ tpTouched
  /\ trades # <<>>
  /\ Last(trades).exitDate = Timestamp(i)

\* the lengths of the three indicator series
SeriesLengths == {rsiValuesLength, emaShortLength, emaLongLength}

\* C3: for every simulated bar i and every indicator series, the index paired
\* with bar i and with bar i-1 is the aligned one, i - (len(closes) - len(S)),
\* and it lies inside the series.
C3_IndexAligned ==
  (pc = "entry") =>
     \A len \in SeriesLengths : \A bar \in {i - 1, i} :
        /\ PairedIndex(bar, len) = AlignedIndex(bar, len)
        /\ PairedIndex(bar, len) >= 0
        /\ PairedIndex(bar, len) < len

\* C4: a series with no bar after the warm-up never yields a BacktestResult.
C4_NoResultWithoutBars ==
  (n <= StartIndex) => (pc # "done" /\ result = <<>>)

\* C5: every trade exits strictly after it was entered and lasts longer than
\* zero hours, the trade of the forced close included.
C5_ExitAfterEntry ==
  \A k \in DOMAIN trades :
     /\ trades[k].exitDate > trades[k].entryDate
     /\ trades[k].duration > 0

C5_Witness ==
  /\ pc = "done"
  /\ position # <<>>
  /\ Len(trades) >= 2
  /\ Last(trades).entryDate = position[1].timestamp
  /\ Last(trades).exitDate = Timestamp(n - 1)

\* C6: the last sample of the result's equity curve is its final balance.
C6_LastEquityIsFinalBalance ==
  (pc = "done") => Last(result[1].equityCurve) = result[1].finalBalance

\* C7: trades never overlap (each trade is entered no earlier than the
\* previous one was exited, and so is the open position), and a position is
\* opened only when none is open.
C7_OnePositionAtATime ==
  /\ [](/\ \A k \in 1..(Len(trades) - 1) : trades[k + 1].entryDate >= trades[k].exitDate
        /\ (pc \notin {"done", "reported"} /\ position # <<>> /\ trades # <<>>) =>
              position[1].timestamp >= Last(trades).exitDate)
  /\ [][(position' # position /\ position' # <<>>) => position = <<>>]_vars

C7_Witness ==
  /\ Len(trades) >= 2
  /\ trades[2].entryDate = trades[1].exitDate
  /\ pc = "done"

\* the signals on the values whose windows end at the bar
AlignedRsiAt(bar) == rsiValues(AlignedIndex(bar, rsiValuesLength))
AlignedShortEmaAt(bar) == emaShort(AlignedIndex(bar, emaShortLength))
AlignedLongEmaAt(bar) == emaLong(AlignedIndex(bar, emaLongLength))

AlignedLongSignalAt(bar) ==
  LongSignal(AlignedShortEmaAt(bar - 1), AlignedLongEmaAt(bar - 1),
             AlignedShortEmaAt(bar), AlignedLongEmaAt(bar), AlignedRsiAt(bar))

\* C8: a LONG position is opened on a bar exactly when no position is open at
\* the entry check and the bar's indicator values cross upwards with an
\* oversold RSI; its entry price is the bar's close.
C8_LongEntryAtCrossBar ==
  [][(pc = "entry") =>
        /\ (position = <<>> /\ position' # <<>> /\ position'[1].side = "BUY")
              <=> (position = <<>> /\ AlignedLongSignalAt(i))
        /\ (position = <<>> /\ position' # <<>>) =>
              /\ position'[1].entryPrice = R(candleClose)
              /\ position'[1].timestamp = Timestamp(i)]_vars

\* C9: a result has one trade per opened position; a position still open
\* after the last bar is closed at the last bar's close.
C9_ForcedClose ==
  (pc = "done") =>
     /\ Len(result[1].trades) = entries
     /\ result[1].totalTrades = entries
     /\ position # <<>> =>
           /\ Last(result[1].trades).entryDate = position[1].timestamp
           /\ Last(result[1].trades).exitPrice = R(candleClose)
           /\ Last(result[1].trades).exitDate = Timestamp(n - 1)

C9_Witness ==
  /\ pc = "done"
  /\ position # <<>>
  /\ entries >= 2
  /\ Last(trades).profit # R(0)

ProfitSignMatches(t) ==
  IF t.side = "BUY"
  THEN RGt(t.profit, R(0)) <=> RGt(t.exitPrice, t.entryPrice)
  ELSE RGt(t.profit, R(0)) <=> RLt(t.exitPrice, t.entryPrice)

C11_TradeCounts ==
  (pc = "done") =>
     /\ result[1].winningTrades + result[1].losingTrades = result[1].totalTrades
     /\ result[1].totalTrades = Len(result[1].trades)
     /\ result[1].winningTrades =
          Cardinality({k \in DOMAIN result[1].trades : RGt(result[1].trades[k].profit, R(0))})

C11_Witness ==
  /\ pc = "done"
  /\ result[1].totalTrades >= 3
  /\ result[1].winningTrades >= 1
  /\ \E k \in DOMAIN result[1].trades : result[1].trades[k].profit = R(0)
  /\ \E k \in DOMAIN result[1].trades : RLt(result[1].trades[k].profit, R(0))

\* C12: the equity curve has the seed entry plus one entry per simulated bar:
\* 1 + max(0, n - 22) entries for n candles.
C12_EquityCurveLength ==
  /\ (pc = "done") =>
        Len(result[1].equityCurve) = 1 + Max(0, n - (Max(emaLongPeriod, rsiPeriod) + 1))
  /\ (pc = "loop") =>
        Len(equityCurve) = 1 + Max(0, i - (Max(emaLongPeriod, rsiPeriod) + 1))

C12_Witness ==
  /\ pc = "done"
  /\ n = MaxCandles
  /\ Len(result[1].equityCurve) = 1 + (MaxCandles - 22)


\* the highest equity sample recorded so far
PeakOf(curve) ==
  LET samples == {curve[k] : k \in DOMAIN curve}
  IN  CHOOSE x \in samples : \A y \in samples : RLe(y, x)

\* (running peak - equity) at the k-th equity sample
DrawdownAt(curve, k) == RSub(PeakOf(SubSeq(curve, 1, k)), curve[k])

\* the largest (running peak - equity) over all the samples
WorstDrawdown(curve) ==
  LET drawdowns == {DrawdownAt(curve, k) : k \in DOMAIN curve}
  IN  CHOOSE x \in drawdowns : \A y \in drawdowns : RLe(y, x)

\* the running peak at the first sample where the drawdown is dd
PeakThen(curve, dd) ==
  LET first == CHOOSE k \in DOMAIN curve :
                  /\ DrawdownAt(curve, k) = dd
                  /\ \A j \in 1..(k - 1) : DrawdownAt(curve, j) # dd
  IN  PeakOf(SubSeq(curve, 1, first))

\* C13: maxDrawdown never decreases from one bar to the next; every bar that
\* records an equity sample leaves it at the larger of its old value and
\* (running peak - equity) of that bar, so that at the end it is the largest
\* (running peak - equity) over all the bars processed.
C13_MaxDrawdownMonotonic ==
  [][/\ RLe(maxDrawdown, maxDrawdown')
     /\ Len(equityCurve') > Len(equityCurve) =>
           maxDrawdown' = RMax(maxDrawdown,
                               RSub(PeakOf(equityCurve'), Last(equityCurve')))
     /\ pc' = "done" =>
           result'[1].maxDrawdown = WorstDrawdown(result'[1].equityCurve)]_vars

C13_Witness ==
  /\ pc = "loop"
  /\ RGt(maxDrawdown, R(0))
  /\ RLt(RSub(maxBalance, equity), maxDrawdown)

\* C14: maxDrawdownPercent is maxDrawdown over the peak that was in force at
\* the bar where the maximum drawdown was observed, times 100.
C14_DrawdownPercentOfPeakThen ==
  (pc = "done") =>
     result[1].maxDrawdownPercent =
        RMul(RDiv(result[1].maxDrawdown,
                  PeakThen(result[1].equityCurve, result[1].maxDrawdown)),
             R(100))

\* C16: optimizeStrategy returns the grid point with the highest score of
\* all grid points and, among grid points with that score, the first one in
\* iteration order; the metrics returned are those of that grid point's run.
C16_BestGridPoint ==
  (op = "optimizeStrategy" /\ pc = "returned") =>
     \E g \in 1..GridSize :
        /\ bestResult[1].parameters = GridPoint(g)
        /\ bestResult[1].score = Score(ResultAt(market, g))
        /\ bestResult[1].profitPercent = ResultAt(market, g).profitPercent
        /\ bestResult[1].sharpeRatio = ResultAt(market, g).sharpeRatio
        /\ \A h \in 1..GridSize :
              RLe(Score(ResultAt(market, h)), Score(ResultAt(market, g)))
        /\ \A h \in 1..(g - 1) :
              RLt(Score(ResultAt(market, h)), Score(ResultAt(market, g)))

\* a sweep returned whose highest score is shared by runs with different
\* metrics, the first of them not being the first grid point
C16_Witness ==
  /\ op = "optimizeStrategy"
  /\ pc = "returned"
  /\ bestResult[1].parameters # GridPoint(1)
  /\ \E h \in 1..GridSize :
        /\ GridPoint(h) # bestResult[1].parameters
        /\ Score(ResultAt(market, h)) = bestResult[1].score
        /\ ResultAt(market, h).profitPercent # bestResult[1].profitPercent

\* the number of runs of the sweep in progress
TotalRuns == IF op = "optimizeStrategy" THEN GridSize ELSE lookbackMonths

\* C17: optimizeStrategy and validateStrategyRobustness fail only when every
\* run has failed: an error leaves the operation only after the last run, with
\* no run having produced a result.
C17_FailsOnlyWhenEveryRunFails ==
  (pc = "thrown" /\ op # "runBacktest") =>
     (run = TotalRuns /\ bestResult = <<>> /\ results = <<>>)

\* C18: a run with a non-positive positionSizePercent, stopLossPercent or
\* takeProfitPercent is rejected before any bar is simulated: it never gets
\* past the start and it produces no result.
C18_InvalidParametersRejected ==
  (positionSizePercent <= 0 \/ stopLossPercent <= 0 \/ takeProfitPercent <= 0)
     => (pc \in {"start", "error"} /\ result = <<>>)

\* the number with the sign of x: 1, -1 or 0
RSign(x) == R(Sign(x[1]))

\* C19 as stated: robustnessFactor is
\* sign(mean) * (mean / max(stdDev, 1)) * (profitableMonthsPercent / 100)
\* for every list of window profits.
C19_RobustnessFactorAsStated ==
  (op = "validateStrategyRobustness" /\ pc = "returned") =>
     summary[1].robustnessFactor =
        RMul(RMul(RSign(summary[1].avgProfitPercent),
                  RDiv(summary[1].avgProfitPercent,
                       RMax(summary[1].profitStdDev, R(1)))),
             RDiv(summary[1].profitableMonthsPercent, R(100)))

\* C19: robustnessFactor is 0 when the mean profit is not positive; otherwise
\* it is (mean / stdDev) * (profitableMonthsPercent / 100), with 1 in place of
\* a stdDev of 0.
C19_RobustnessFactor ==
  (op = "validateStrategyRobustness" /\ pc = "returned") =>
     summary[1].robustnessFactor =
        IF RGt(summary[1].avgProfitPercent, R(0))
        THEN RMul(RDiv(summary[1].avgProfitPercent,
                       IF summary[1].profitStdDev = R(0) THEN R(1)
                       ELSE summary[1].profitStdDev),
                  RDiv(summary[1].profitableMonthsPercent, R(100)))
        ELSE R(0)

\* a positive mean with a deviation strictly between 0 and 1
C19_Witness ==
  /\ op = "validateStrategyRobustness"
  /\ pc = "returned"
  /\ RGt(summary[1].avgProfitPercent, R(0))
  /\ RGt(summary[1].profitStdDev, R(0))
  /\ RLt(summary[1].profitStdDev, R(1))
  /\ RGt(summary[1].robustnessFactor, summary[1].avgProfitPercent)

\* C20: profitableMonthsPercent is 100 * (windows with profitPercent > 0) / N
\* over the N = lookbackMonths windows; a window with profitPercent = 0 is not
\* counted.
C20_ProfitableMonthsPercent ==
  (op = "validateStrategyRobustness" /\ pc = "returned") =>
     /\ Len(results) = lookbackMonths
     /\ summary[1].profitableMonthsPercent =
           RDiv(R(100 * Cardinality({k \in DOMAIN results :
                                       RGt(results[k].profitPercent, R(0))})),
                R(lookbackMonths))

\* two profitable windows and a flat one: 2/3 * 100
C20_Witness ==
  /\ op = "validateStrategyRobustness"
  /\ pc = "returned"
  /\ lookbackMonths = 3
  /\ \E k \in DOMAIN results : results[k].profitPercent = R(0)
  /\ Cardinality({k \in DOMAIN results : RGt(results[k].profitPercent, R(0))}) = 2
  /\ summary[1].profitableMonthsPercent = <<200, 3>>

\* C21: a BacktestResult is not changed by generateBacktestReport: after the
\* report its trades are still in the order in which they were appended, and
\* every other field is as runBacktest returned it.
C21_ResultUnchangedByReport ==
  [][pc' = "reported" => result' = result]_vars

\* the equity sample recorded for a candle: the seed of the curve for a
\* candle of the warm-up, else the sample pushed in that candle's iteration
SampleOfBar(curve, bar) ==
  IF bar < Max(emaLongPeriod, rsiPeriod) + 1 THEN curve[1]
  ELSE curve[bar - (Max(emaLongPeriod, rsiPeriod) + 1) + 2]

\* the daily returns computed from the samples of the candles `back` candles
\* before the day boundaries
ReturnsFromSamples(curve, back) ==
  [k \in 1..Cardinality(DayBoundaries) |->
     LET prev == IF k = 1 THEN R(initialBalanceDefault)
                 ELSE SampleOfBar(curve, BoundaryAt(k - 1) - back)
     IN  RDiv(RSub(SampleOfBar(curve, BoundaryAt(k) - back), prev), prev)]

\* C22: every daily return is the relative change of equity between two
\* consecutive days, the equity of a day boundary being the sample recorded
\* for the boundary candle, or for the last candle of the day that ended.
C22_DailyReturnsFromOwnSamples ==
  (pc = "done") =>
     \/ dailyReturns = ReturnsFromSamples(result[1].equityCurve, 0)
     \/ dailyReturns = ReturnsFromSamples(result[1].equityCurve, 1)

\* C23: a bar whose month differs from the month of the bar before sets
\* monthlyReturns[month of the bar before] to
\* 100 * (balance - boundary balance) / boundary balance, with the balance
\* as it is before the bar's own exit, and resets the boundary balance to that
\* balance; nothing else writes to monthlyReturns.
C23_MonthlyReturnAtBoundary ==
  [][IF pc = "loop" /\ pc' = "entry"
        /\ MonthOf(Timestamp(i)) # MonthOf(Timestamp(i - 1))
     THEN /\ DOMAIN monthlyReturns' =
                (DOMAIN monthlyReturns) \cup {MonthOf(Timestamp(i - 1))}
          /\ monthlyReturns'[MonthOf(Timestamp(i - 1))] =
                RDiv(RMul(R(100), RSub(balance, lastMonthBalance)), lastMonthBalance)
          /\ \A m \in (DOMAIN monthlyReturns) \ {MonthOf(Timestamp(i - 1))} :
                monthlyReturns'[m] = monthlyReturns[m]
          /\ lastMonthBalance' = balance
     ELSE /\ monthlyReturns' = monthlyReturns
          /\ lastMonthBalance' = lastMonthBalance]_vars

\* a boundary bar that records a non-zero return and closes a position itself
C23_Witness ==
  /\ pc = "entry"
  /\ MonthOf(Timestamp(i)) # MonthOf(Timestamp(i - 1))
  /\ MonthOf(Timestamp(i - 1)) \in DOMAIN monthlyReturns
  /\ monthlyReturns[MonthOf(Timestamp(i - 1))] # R(0)
  /\ exitReason # ""
  /\ balance # lastMonthBalance

\* the stop on the losing side of the entry price, the target on the winning
LevelsOrdered(pos) ==
  IF pos.side = "BUY"
  THEN RLt(pos.stopLoss, pos.entryPrice) /\ RLt(pos.entryPrice, pos.takeProfit)
  ELSE RLt(pos.takeProfit, pos.entryPrice) /\ RLt(pos.entryPrice, pos.stopLoss)

\* C24: with stopLossPercent and takeProfitPercent in (0, 100), every
\* position has stopLoss < entryPrice < takeProfit when LONG and
\* takeProfit < entryPrice < stopLoss when SHORT, and a position is only ever
\* opened or closed, never changed, so its levels stay as they were set.
C24_LevelsOrderedAndFixed ==
  [][/\ (position' # <<>> /\ stopLossPercent > 0 /\ stopLossPercent < 100
           /\ takeProfitPercent > 0 /\ takeProfitPercent < 100)
        => LevelsOrdered(position'[1])
     /\ position' # position => (position = <<>> \/ position' = <<>>)]_vars

\* a SHORT held over a bar after a LONG has been closed
C24_Witness ==
  /\ pc = "entry"
  /\ stopLossPercent > 0
  /\ position # <<>>
  /\ position[1].side = "SELL"
  /\ position[1].timestamp < Timestamp(i)
  /\ \E k \in DOMAIN trades : trades[k].side = "BUY"

\* C25: the candles of fetchHistoricalData are in strictly ascending
\* timestamp order, hence without duplicates, at every point of the paging
\* loop and when they are returned, whenever every page of the exchange is
\* strictly ascending and holds no candle before the start asked for it.
C25_CandlesStrictlyAscending ==
  \A k \in 1..(Len(allKlines) - 1) : allKlines[k] < allKlines[k + 1]

\* candles returned from more than one page, two of them adjacent in time
C25_Witness ==
  /\ pc = "fetched"
  /\ Len(allKlines) > PageLimit
  /\ \E k \in 1..(Len(allKlines) - 1) : allKlines[k + 1] = allKlines[k] + 1


\* evaluateTradeRisk has just returned a decision made from the metrics of
\* the drawdown controller
Evaluated == riskDecision # <<>> /\ call[1].metrics # <<>>

\* C26 as stated: whenever the reported drawdown is over maxDrawdownPercent
\* the decision is a rejection whose reason names the drawdown.
C26_RejectionNamesDrawdown ==
  (Evaluated /\ RGt(call[1].metrics[1].currentDrawdown, R(maxDrawdownPercent)))
    => /\ ~riskDecision[1].canTrade
       /\ riskDecision[1].reason = "drawdown"

\* C26: whenever the reported drawdown is over maxDrawdownPercent the
\* decision is a rejection, whatever the other metrics are; its reason names
\* the drawdown when the emergency stop was not active at the call and the
\* emergency stop when it was.
C26_DrawdownRejected ==
  (Evaluated /\ RGt(call[1].metrics[1].currentDrawdown, R(maxDrawdownPercent)))
    => /\ ~riskDecision[1].canTrade
       /\ riskDecision[1].reason =
            (IF call[1].stopped THEN "emergencyStop" ELSE "drawdown")

\* a drawdown over the limit met with no loss on the day or on the week
C26_Witness ==
  /\ Evaluated
  /\ ~call[1].stopped
  /\ RGt(call[1].metrics[1].currentDrawdown, R(maxDrawdownPercent))
  /\ RGe(call[1].metrics[1].dailyPnL, R(0))
  /\ RGe(call[1].metrics[1].weeklyPnL, R(0))
  /\ ActivePositions(call[1].positions) = 0
  /\ riskDecision[1].reason = "drawdown"
  /\ emergencyStopActive


\* every check of evaluateTradeRisk other than the daily-loss check and the
\* position-count check passes
OtherChecksPass ==
  /\ ~call[1].stopped
  /\ RLe(call[1].metrics[1].currentDrawdown, R(maxDrawdownPercent))
  /\ RGe(call[1].metrics[1].weeklyPnL, R(0 - maxWeeklyLossPercent))
  /\ RLe(call[1].metrics[1].riskScore, R(maxRiskScore))

\* C27: a daily P&L below -maxDailyLossPercent is rejected with riskLevel
\* CRITICAL; a daily P&L at or above it is not rejected by the daily-loss
\* check, and is approved when every other check passes.
C27_DailyLossLimit ==
  Evaluated =>
    /\ RLt(call[1].metrics[1].dailyPnL, R(0 - maxDailyLossPercent))
          => /\ ~riskDecision[1].canTrade
             /\ riskDecision[1].riskLevel = "CRITICAL"
    /\ RGe(call[1].metrics[1].dailyPnL, R(0 - maxDailyLossPercent))
          => /\ riskDecision[1].reason # "dailyLoss"
             /\ (OtherChecksPass
                   /\ ActivePositions(call[1].positions) < maxOpenPositions)
                  => riskDecision[1].canTrade

\* a daily loss over the limit is the only check that fails
C27_Witness ==
  /\ Evaluated
  /\ OtherChecksPass
  /\ ActivePositions(call[1].positions) < maxOpenPositions
  /\ RLt(call[1].metrics[1].dailyPnL, R(0 - maxDailyLossPercent))
  /\ riskDecision[1].reason = "dailyLoss"
  /\ riskDecision[1].riskLevel = "CRITICAL"

\* C28: with maxOpenPositions or more positions of size > 0 the trade is
\* rejected; with fewer it is approved when every other check passes.
C28_PositionLimit ==
  /\ (riskDecision # <<>>
        /\ ActivePositions(call[1].positions) >= maxOpenPositions)
       => ~riskDecision[1].canTrade
  /\ (Evaluated
        /\ ActivePositions(call[1].positions) < maxOpenPositions
        /\ OtherChecksPass
        /\ RGe(call[1].metrics[1].dailyPnL, R(0 - maxDailyLossPercent)))
       => riskDecision[1].canTrade

\* the position count is the only check that fails
C28_Witness ==
  /\ Evaluated
  /\ OtherChecksPass
  /\ RGe(call[1].metrics[1].dailyPnL, R(0 - maxDailyLossPercent))
  /\ ActivePositions(call[1].positions) >= maxOpenPositions
  /\ riskDecision[1].reason = "positions"
  /\ ~riskDecision[1].canTrade

\* C29: an approved decision has a positive recommended position size, and
\* its riskLevel is LOW when the risk score is at most 30 and the market
\* volatility at most 1.2.
C29_ApprovalIsLowRisk ==
  (Evaluated /\ riskDecision[1].canTrade)
    => /\ RGt(riskDecision[1].recommendedPositionSize, R(0))
       /\ (RLe(call[1].metrics[1].riskScore, R(30))
             /\ RLe(call[1].marketVolatility, <<6, 5>>))
            => riskDecision[1].riskLevel = "LOW"

\* two calls of calculatePositionSize differ in the volatility only
SameButVolatility(p, q) ==
  /\ p.accountBalance = q.accountBalance
  /\ p.stopLossPercent = q.stopLossPercent
  /\ p.riskPerTradePercent = q.riskPerTradePercent
  /\ p.maxPositionPercent = q.maxPositionPercent

\* C30: of two calls of calculatePositionSize that differ in the volatility
\* only, the one with the higher volatility returns the strictly smaller
\* size.
C30_SmallerSizeForHigherVolatility ==
  [][(sizing # <<>> /\ sizing' # <<>>
        /\ SameButVolatility(sizing[1].params, sizing'[1].params)
        /\ RGt(sizing'[1].params.volatility, sizing[1].params.volatility))
      => RLt(sizing'[1].size, sizing[1].size)]_vars


\* accountBalance * maxPositionPercent / 100
MaxPositionValue(params) ==
  RDiv(RMul(params.accountBalance, params.maxPositionPercent), R(100))

\* C31: with a positive balance, stop-loss percent and risk percent,
\* calculatePositionSize returns at most accountBalance * maxPositionPercent
\* / 100.
C31_SizeWithinMaximum ==
  (/\ sizing # <<>>
   /\ RGt(sizing[1].params.accountBalance, R(0))
   /\ RGt(sizing[1].params.stopLossPercent, R(0))
   /\ RGt(sizing[1].params.riskPerTradePercent, R(0)))
    => RLe(sizing[1].size, MaxPositionValue(sizing[1].params))

\* the size the stop-loss and the volatility give is above the maximum
C31_Witness ==
  /\ sizing # <<>>
  /\ RGt(sizing[1].params.accountBalance, R(0))
  /\ RGt(sizing[1].params.stopLossPercent, R(0))
  /\ RGt(sizing[1].params.riskPerTradePercent, R(0))
  /\ RGt(RMul(RDiv(RMul(sizing[1].params.accountBalance,
                        sizing[1].params.riskPerTradePercent),
                   sizing[1].params.stopLossPercent),
              RMax(<<1, 10>>,
                   RSub(R(1), RMul(RSub(sizing[1].params.volatility, R(1)),
                                   <<1, 2>>)))),
         MaxPositionValue(sizing[1].params))
  /\ sizing[1].size = MaxPositionValue(sizing[1].params)


\* updateDrawdownMetrics has just returned
Reported == call # <<>> /\ call[1].op = "updateDrawdownMetrics"

\* C32: on a fresh controller a first report of 900 is measured as a loss:
\* currentDrawdown > 0, dailyPnL < 0 and riskScore > 0.
C32_FirstReportIsLoss ==
  [][(RiskIdle /\ Reported' /\ call'[1].balance = 900)
      => /\ RGt(call'[1].metrics[1].currentDrawdown, R(0))
         /\ RLt(call'[1].metrics[1].dailyPnL, R(0))
         /\ RGt(call'[1].metrics[1].riskScore, R(0))]_vars

\* the report of 950 on a controller whose baselines are the initial ones
FirstReportOf950 ==
  /\ Reported
  /\ call[1].balance = 950
  /\ peakValue = 950
  /\ dailyStartBalance = 500
  /\ weeklyStartBalance = 500
  /\ monthlyStartBalance = 500

\* C33: of two successive reports, the second with the lower balance, the
\* second risk score is not below the first; it is above it for 950 then
\* 800 on a fresh controller.
C33_RiskScoreGrowsWithLoss ==
  [][(Reported /\ Reported' /\ call'[1].balance < call[1].balance)
      => /\ RGe(call'[1].metrics[1].riskScore, call[1].metrics[1].riskScore)
         /\ (FirstReportOf950 /\ call'[1].balance = 800)
              => RGt(call'[1].metrics[1].riskScore,
                     call[1].metrics[1].riskScore)]_vars

\* 800 reported after 950 with the initial baselines
C33_Witness ==
  /\ Reported
  /\ call[1].balance = 800
  /\ peakValue = 950
  /\ dailyStartBalance = 500
  /\ weeklyStartBalance = 500
  /\ monthlyStartBalance = 500
  /\ RGt(call[1].metrics[1].riskScore, R(0))


\* C36: a call of evaluateTradeRisk that sees a drawdown over the limit
\* leaves the emergency stop active; while it is active every call of
\* evaluateTradeRisk is rejected; only resetEmergencyStop clears it.
C36_EmergencyStopLatch ==
  [][/\ (Evaluated' /\ RGt(call'[1].metrics[1].currentDrawdown,
                           R(maxDrawdownPercent)))
        => emergencyStopActive'
     /\ (emergencyStopActive /\ riskDecision' # <<>>)
        => ~riskDecision'[1].canTrade
     /\ (emergencyStopActive /\ ~emergencyStopActive')
        => call'[1].op = "resetEmergencyStop"]_vars

\* after the stop and a daily reset, a call whose own metrics pass every
\* check is rejected
C36_Witness ==
  /\ Evaluated
  /\ call[1].stopped
  /\ emergencyStopActive
  /\ dailyStartBalance # 500
  /\ RLe(call[1].metrics[1].currentDrawdown, R(maxDrawdownPercent))
  /\ RGe(call[1].metrics[1].dailyPnL, R(0 - maxDailyLossPercent))
  /\ RGe(call[1].metrics[1].weeklyPnL, R(0 - maxWeeklyLossPercent))
  /\ RLe(call[1].metrics[1].riskScore, R(maxRiskScore))
  /\ ActivePositions(call[1].positions) < maxOpenPositions
  /\ ~riskDecision[1].canTrade


\* analyze has just returned from klines that were there
Analyzed == signal # <<>> /\ indicators[1].values.klines = "some"

\* the BUY rule and the SELL rule of an EMA crossing, as C34 states them
BuyCrossing(ind) ==
  /\ JsLt(ind.prevEmaShort, ind.prevEmaLong)
  /\ JsGt(ind.lastEmaShort, ind.lastEmaLong)
  /\ JsLt(ind.lastRsi, <<30>>)

SellCrossing(ind) ==
  /\ JsGt(ind.prevEmaShort, ind.prevEmaLong)
  /\ JsLt(ind.lastEmaShort, ind.lastEmaLong)
  /\ JsGt(ind.lastRsi, <<70>>)

\* the two RSI-crossing rules
BuyRsiCrossing(ind) ==
  /\ JsLt(ind.prevRsi, <<30>>)
  /\ JsGt(ind.lastRsi, <<30>>)
  /\ JsGt(ind.lastEmaShort, ind.lastEmaLong)

SellRsiCrossing(ind) ==
  /\ JsLt(ind.prevRsi, <<70>>)
  /\ JsGt(ind.lastRsi, <<70>>)
  /\ JsLt(ind.lastEmaShort, ind.lastEmaLong)

\* C34: analyze returns BUY on the BUY crossing, SELL on the SELL crossing,
\* HOLD "no clear signal" when none of the four rules holds, and no
\* indicator values satisfy a BUY rule and a SELL rule together.
C34_SignalRules ==
  Analyzed =>
    LET ind == indicators[1].values
    IN  /\ BuyCrossing(ind) => signal[1].action = "BUY"
        /\ SellCrossing(ind) => signal[1].action = "SELL"
        /\ ~(BuyCrossing(ind) \/ SellCrossing(ind)
               \/ BuyRsiCrossing(ind) \/ SellRsiCrossing(ind))
             => signal[1] = [action |-> "HOLD", reason |-> "noSignal"]
        /\ ~((BuyCrossing(ind) \/ BuyRsiCrossing(ind))
               /\ (SellCrossing(ind) \/ SellRsiCrossing(ind)))
        /\ (BuyCrossing(ind) \/ BuyRsiCrossing(ind))
             => signal[1].action = "BUY"
        /\ (SellCrossing(ind) \/ SellRsiCrossing(ind))
             => signal[1].action = "SELL"

\* the SELL crossing gave SELL
C34_Witness ==
  /\ Analyzed
  /\ SellCrossing(indicators[1].values)
  /\ signal[1].action = "SELL"

\* C35: without klines, or when a step of the analysis throws, analyze
\* returns HOLD.
C35_HoldWithoutData ==
  (signal # <<>> /\ indicators[1].values.klines # "some")
    => signal[1].action = "HOLD"

\* a step of the analysis threw
C35_Witness ==
  /\ signal # <<>>
  /\ indicators[1].values.klines = "throws"
  /\ signal[1].action = "HOLD"

\* C39: for the same indicator values runBacktest enters a LONG from the
\* flat state exactly when analyze signals BUY, and a SHORT exactly when it
\* signals SELL.
C39_BacktestEntersAsLive ==
  Analyzed =>
    /\ indicators[1].backtestEntry = "BUY" <=> signal[1].action = "BUY"
    /\ indicators[1].backtestEntry = "SELL" <=> signal[1].action = "SELL"


\* C37: from the start of emergencyCloseAll until startTrading is called,
\* no order is placed.
C37_NoOrderAfterEmergencyStop ==
  [][emergencyStarted => orders' = orders]_vars

\* every trade's profitPercent is a number from -stopLossPercent to
\* +takeProfitPercent
ProfitPercentWithinLevels ==
  \A k \in DOMAIN trades :
    /\ RGe(trades[k].profitPercent, R(0 - stopLossPercent))
    /\ RLe(trades[k].profitPercent, R(takeProfitPercent))

\* C38 as stated: with positive stopLossPercent and takeProfitPercent every
\* trade's profitPercent lies in [-stopLossPercent, +takeProfitPercent], and
\* with positionSizePercent <= 100 the balance stays strictly positive.
C38_ProfitPercentWithinLevelsAnySize ==
  (stopLossPercent > 0 /\ takeProfitPercent > 0) =>
    /\ ProfitPercentWithinLevels
    /\ positionSizePercent <= 100 => RGt(balance, R(0))

\* C38: with positive stopLossPercent, takeProfitPercent and
\* positionSizePercent and positionSizePercent * stopLossPercent < 10000,
\* every trade's profitPercent lies in [-stopLossPercent,
\* +takeProfitPercent] and the balance stays strictly positive.
C38_ProfitPercentWithinLevels ==
  (/\ stopLossPercent > 0
   /\ takeProfitPercent > 0
   /\ positionSizePercent > 0
   /\ positionSizePercent * stopLossPercent < 10000) =>
    /\ ProfitPercentWithinLevels
    /\ RGt(balance, R(0))

\* a finished run with a trade at the stop-loss, one at the take-profit and
\* one closed in between at a loss or a gain
C38_Witness ==
  /\ pc = "done"
  /\ stopLossPercent > 0
  /\ takeProfitPercent > 0
  /\ positionSizePercent * stopLossPercent < 10000
  /\ \E j \in DOMAIN trades : trades[j].profitPercent = R(0 - stopLossPercent)
  /\ \E j \in DOMAIN trades : trades[j].profitPercent = R(takeProfitPercent)
  /\ \E j \in DOMAIN trades :
       /\ trades[j].profitPercent # R(0)
       /\ RGt(trades[j].profitPercent, R(0 - stopLossPercent))
       /\ RLt(trades[j].profitPercent, R(takeProfitPercent))

====
